---- MODULE Spec2Model ----
(***************************************************************************)
(* A model of the miniptr slab pool: index types (src/src/index.rs), slot  *)
(* variants (src/src/slot.rs), the two free-list strategies                *)
(* (src/src/pool/slab/free.rs) and SlabPool (src/src/pool/slab/mod.rs).    *)
(*                                                                         *)
(* Integer widths are scaled down: the machine word has WordBits bits, the *)
(* narrow key types (standing for u8 / i8 / Neg<i8>) hold indices          *)
(* 0..NarrowMax, the half-word key type (standing for u32 on a 64-bit      *)
(* target) holds 0..HalfMax, and the word-sized key type (standing for     *)
(* usize) holds 0..UsizeMax.  Positions of the backing Vec are 0-based as in the        *)
(* source; the TLA+ sequence that models it is read at position + 1.       *)
(***************************************************************************)
EXTENDS Integers, Sequences, FiniteSets, TLC

VARIABLES cfg, sp, held, hist, last, kp, ip, elast, sl, own, slast

vars == <<cfg, sp, held, hist, last, kp, ip, elast, sl, own, slast>>

(* ------------------------------ bounds -------------------------------- *)

\* number of bits of the machine word (usize)
WordBits == 6
\* MAX of the narrow primitive types: u8::MAX / i8::MAX scaled down
NarrowMax == 1
\* the most slots memory lets a Vec hold (growth beyond it is not explored)
MaxSlots == 3
\* the most calls a misusing client makes with keys it does not hold
MaxMisuse == 1

Pow2(n) == 2 ^ n

\* usize::MAX
UsizeMax == Pow2(WordBits) - 1

\* u32::MAX where usize is twice as wide
HalfMax == Pow2(WordBits - 1) - 1

(* ------------------------------ Option -------------------------------- *)

None == [some |-> FALSE]

Some(x) == [some |-> TRUE, v |-> x]

(* --------------------------- index types ------------------------------ *)

KeyTypes == {"u8", "i8", "Neg<i8>", "usize"}

\* `x as usize`: two's-complement wrap into 0..usize::MAX
AsUsize(x) == x % (UsizeMax + 1)

\* `x as isize`: the word reinterpreted as signed
AsIsize(x) ==
    LET r == x % (UsizeMax + 1)
    IN  IF 2 * r > UsizeMax THEN r - (UsizeMax + 1) ELSE r

\* `x as $ty` for the narrow types: truncation, then the sign of the type
AsTy(K, x) ==
    CASE K = "usize" -> AsUsize(x)
      [] K = "u8"    -> x % (NarrowMax + 1)
      [] K = "u32"   -> x % (HalfMax + 1)
      [] OTHER       -> LET r == x % (2 * (NarrowMax + 1))
                        IN  IF r > NarrowMax THEN r - 2 * (NarrowMax + 1) ELSE r

\* const MAX_INDEX: usize = <$ty>::MAX as usize
MAX_INDEX(K) ==
    IF K = "usize" THEN UsizeMax ELSE IF K = "u32" THEN HalfMax ELSE NarrowMax

\* mutant of try_new: the bound check excludes MAX_INDEX itself
try_new_exclusive(K, ix) ==
    IF ix >= MAX_INDEX(K) THEN None
    ELSE IF K = "Neg<i8>" THEN Some(AsTy(K, AsIsize(-AsIsize(ix)) - 1))
    ELSE Some(AsTy(K, ix))

\* ContiguousIx::try_new
try_new(K, ix) ==
    IF ix > MAX_INDEX(K) THEN None
    ELSE IF K = "Neg<i8>" THEN Some(AsTy(K, AsIsize(-AsIsize(ix)) - 1))
    ELSE Some(AsTy(K, ix))

\* ContiguousIx::new_unchecked
new_unchecked(K, ix) ==
    IF K = "Neg<i8>" THEN AsTy(K, AsIsize(-AsIsize(ix)) - 1)
    ELSE AsTy(K, ix)

\* ContiguousIx::index
index(K, k) ==
    IF K = "Neg<i8>" THEN AsUsize(-(AsIsize(k) + 1))
    ELSE AsUsize(k)

(* ------------------------------- slots -------------------------------- *)

SlotTypes == {"Either", "DefaultSlot", "CloneSlot"}

\* Either::Left(key)
Left(k) == [t |-> "Left", x |-> k]

\* Either::Right(value)
Right(v) == [t |-> "Right", x |-> v]

\* T::default() of the stored values
DefaultValue == 0

\* the values a client stores: the default and one other value
Values == {DefaultValue, DefaultValue + 1}

\* InitFrom::from_value
from_value(S, v) ==
    IF S = "Either" THEN Right(v) ELSE [t |-> S, x |-> v]

\* InitFrom::set_value
set_value(s, v) ==
    IF s.t \in {"Left", "Right"} THEN Right(v) ELSE [s EXCEPT !.x = v]

\* Slot::try_into_value
try_into_value(s) ==
    IF s.t = "Left" THEN None ELSE Some(s.x)

\* KeySlot::try_key
try_key(s) ==
    IF s.t = "Right" THEN None ELSE Some(s.x)

\* KeySlot::from_key
from_key(S, k) ==
    IF S = "Either" THEN Left(k) ELSE [t |-> S, x |-> k]

\* the slot type a slot value belongs to
SlotTypeOf(s) ==
    IF s.t \in {"Left", "Right"} THEN "Either" ELSE s.t

\* KeySlot::set_key
set_key(s, k) == from_key(SlotTypeOf(s), k)

\* mutant of try_swap_key: the old content is returned and left in the slot
try_swap_key_keep(s, k) == [slot |-> s, ret |-> try_into_value(s)]

\* KeySlot::try_swap_key: the slot becomes the key, the old content is returned
try_swap_key(s, k) ==
    [slot |-> from_key(SlotTypeOf(s), k), ret |-> try_into_value(s)]

\* mutant of try_remove_value: DefaultSlot reads the value after the default
\* has been swapped in
try_remove_value_after_swap(s) ==
    IF s.t = "DefaultSlot"
    THEN [slot |-> from_value("DefaultSlot", DefaultValue), ret |-> Some(DefaultValue)]
    ELSE [slot |-> s, ret |-> Some(s.x)]

\* the DefaultSlot types: DefaultSlot<T> of the plain values, and
\* DefaultSlot<Vec<u32>> of the container pools
DefaultSlots == {"DefaultSlot", "DefaultSlot<Vec>"}

\* T::default() of the value type of slot type S (Vec::new() is empty)
T_default(S) == IF S = "DefaultSlot<Vec>" THEN <<>> ELSE DefaultValue

\* RemoveSlot::try_remove_value (DefaultSlot swaps in the default, CloneSlot clones)
try_remove_value(s) ==
    IF s.t \in DefaultSlots
    THEN [slot |-> from_value(s.t, T_default(s.t)), ret |-> Some(s.x)]
    ELSE [slot |-> s, ret |-> Some(s.x)]

\* mutant of delete_value: the value is left in the slot
delete_value_keep(s) == s

\* RemoveSlot::delete_value
delete_value(s) ==
    IF s.t \in DefaultSlots THEN try_remove_value(s).slot ELSE s

\* SlotRef::try_value
try_value(s) ==
    IF s.t = "Left" THEN None ELSE Some(s.x)

(* ------------------------ free-list strategies ------------------------ *)

FreeLists == {"KeyList", "IntrusiveFree"}

\* what a free-list call hands back: the free list, the backing, the returned
\* value and whether the call panicked
FlResult(fl, backing, ret, panic) ==
    [fl |-> fl, backing |-> backing, ret |-> ret, panic |-> panic]

\* slice.get(ix) / slice.get_mut(ix): is position ix inside the backing
InBacking(backing, ix) == ix >= 0 /\ ix < Len(backing)

\* KeyList::default()
KeyList_default == <<>>

\* mutant of KeyList_alloc: the oldest freed key is taken instead of the newest
KeyList_alloc_fifo(fl, backing) ==
    IF fl = <<>> THEN FlResult(fl, backing, None, FALSE)
    ELSE FlResult(Tail(fl), backing, Some(Head(fl)), FALSE)

\* <KeyList as FreeList>::alloc: self.0.pop()
KeyList_alloc(fl, backing) ==
    IF fl = <<>> THEN FlResult(fl, backing, None, FALSE)
    ELSE FlResult(SubSeq(fl, 1, Len(fl) - 1), backing, Some(fl[Len(fl)]), FALSE)

\* mutant of KeyList_delete: the value of the slot after the key's is deleted
KeyList_delete_next_slot(K, fl, key, backing) ==
    LET ix == index(K, key)
    IN  IF InBacking(backing, ix + 1)
        THEN FlResult(Append(fl, key),
                      [backing EXCEPT ![ix + 2] = delete_value(@)], None, FALSE)
        ELSE IF InBacking(backing, ix)
        THEN FlResult(Append(fl, key), backing, None, FALSE)
        ELSE FlResult(fl, backing, None, FALSE)

\* <KeyList as FreeList>::delete
KeyList_delete(K, fl, key, backing) ==
    LET ix == index(K, key)
    IN  IF InBacking(backing, ix)
        THEN FlResult(Append(fl, key),
                      [backing EXCEPT ![ix + 1] = delete_value(@)], None, FALSE)
        ELSE FlResult(fl, backing, None, FALSE)

\* <KeyList as RemovalList>::try_remove
KeyList_try_remove(K, fl, key, backing) ==
    LET ix == index(K, key)
    IN  IF ~InBacking(backing, ix) THEN FlResult(fl, backing, None, FALSE)
        ELSE LET r == try_remove_value(backing[ix + 1])
             IN  FlResult(Append(fl, key), [backing EXCEPT ![ix + 1] = r.slot],
                          r.ret, FALSE)

\* mutant of KeyList_remove: the removed key is not pushed on the stack
KeyList_remove_no_push(K, fl, key, backing) ==
    LET ix == index(K, key)
    IN  IF ~InBacking(backing, ix) THEN FlResult(fl, backing, None, TRUE)
        ELSE LET r == try_remove_value(backing[ix + 1])
             IN  FlResult(fl, [backing EXCEPT ![ix + 1] = r.slot], r.ret, FALSE)

\* <KeyList as RemovalList>::remove: backing[key.index()] panics out of bounds
KeyList_remove(K, fl, key, backing) ==
    LET ix == index(K, key)
    IN  IF ~InBacking(backing, ix) THEN FlResult(fl, backing, None, TRUE)
        ELSE LET r == try_remove_value(backing[ix + 1])
             IN  FlResult(Append(fl, key), [backing EXCEPT ![ix + 1] = r.slot],
                          r.ret, FALSE)

\* <KeyList as NextFreeList>::next_free: self.0.last().cloned()
KeyList_next_free(fl) ==
    IF fl = <<>> THEN None ELSE Some(fl[Len(fl)])

\* <KeyList as FreeListCapacity>::len
KeyList_len(fl) == Len(fl)

\* IntrusiveFree::default(): free_head = usize::MAX
IntrusiveFree_default == [free_head |-> UsizeMax]

\* mutant of IntrusiveFree_alloc: free_head is not moved to the next link
IntrusiveFree_alloc_keep_head(K, fl, backing) ==
    IF ~InBacking(backing, fl.free_head) THEN FlResult(fl, backing, None, FALSE)
    ELSE LET k == try_key(backing[fl.free_head + 1])
         IN  IF ~k.some THEN FlResult(fl, backing, None, TRUE)
             ELSE FlResult(fl, backing, Some(new_unchecked(K, fl.free_head)), FALSE)

\* mutant of IntrusiveFree_alloc: a self-referential link is followed like
\* any other
IntrusiveFree_alloc_follow_self(K, fl, backing) ==
    IF ~InBacking(backing, fl.free_head) THEN FlResult(fl, backing, None, FALSE)
    ELSE LET k == try_key(backing[fl.free_head + 1])
         IN  IF ~k.some THEN FlResult(fl, backing, None, TRUE)
             ELSE FlResult([free_head |-> index(K, k.v)], backing,
                           Some(new_unchecked(K, fl.free_head)), FALSE)

\* <IntrusiveFree as FreeList>::alloc
IntrusiveFree_alloc(K, fl, backing) ==
    IF ~InBacking(backing, fl.free_head) THEN FlResult(fl, backing, None, FALSE)
    ELSE LET k == try_key(backing[fl.free_head + 1])
         IN  IF ~k.some THEN FlResult(fl, backing, None, TRUE)
             ELSE LET key == index(K, k.v)
                      old == fl.free_head
                  IN  FlResult([free_head |-> IF key = old THEN UsizeMax ELSE key],
                               backing, Some(new_unchecked(K, old)), FALSE)

\* mutant of IntrusiveFree_link: every freed slot links to itself
IntrusiveFree_link_self(K, fl, key) == key

\* K::try_new(self.free_head).unwrap_or(key): the link written into a freed slot
IntrusiveFree_link(K, fl, key) ==
    LET h == try_new(K, fl.free_head)
    IN  IF h.some THEN h.v ELSE key

\* <IntrusiveFree as FreeList>::delete
IntrusiveFree_delete(K, fl, key, backing) ==
    LET ix == index(K, key)
    IN  IF InBacking(backing, ix)
        THEN FlResult([free_head |-> ix],
                      [backing EXCEPT
                          ![ix + 1] = set_key(@, IntrusiveFree_link(K, fl, key))],
                      None, FALSE)
        ELSE FlResult(fl, backing, None, FALSE)

\* <IntrusiveFree as RemovalList>::try_remove: the key is swapped in before the
\* old content is looked at, so a slot holding no value keeps the new link
IntrusiveFree_try_remove(K, fl, key, backing) ==
    LET ix == index(K, key)
    IN  IF ~InBacking(backing, ix) THEN FlResult(fl, backing, None, FALSE)
        ELSE LET r == try_swap_key(backing[ix + 1], IntrusiveFree_link(K, fl, key))
                 b == [backing EXCEPT ![ix + 1] = r.slot]
             IN  IF r.ret.some THEN FlResult([free_head |-> ix], b, r.ret, FALSE)
                 ELSE FlResult(fl, b, None, FALSE)

\* <IntrusiveFree as RemovalList>::remove: as try_remove, panicking on None
IntrusiveFree_remove(K, fl, key, backing) ==
    LET ix == index(K, key)
    IN  IF ~InBacking(backing, ix) THEN FlResult(fl, backing, None, TRUE)
        ELSE LET r == try_swap_key(backing[ix + 1], IntrusiveFree_link(K, fl, key))
                 b == [backing EXCEPT ![ix + 1] = r.slot]
             IN  IF r.ret.some THEN FlResult([free_head |-> ix], b, r.ret, FALSE)
                 ELSE FlResult(fl, b, None, TRUE)

\* <IntrusiveFree as NextFreeList>::next_free
IntrusiveFree_next_free(K, fl) == try_new(K, fl.free_head)

\* the positions visited by the walk of <IntrusiveFree as FreeListCapacity>::len,
\* in order; the walk is cut after `fuel` steps
RECURSIVE IntrusiveFree_walk(_, _, _, _)
IntrusiveFree_walk(K, backing, curr, fuel) ==
    IF fuel = 0 \/ ~InBacking(backing, curr) THEN <<>>
    ELSE LET k == try_key(backing[curr + 1])
         IN  IF ~k.some \/ index(K, k.v) = curr THEN <<curr>>
             ELSE <<curr>> \o IntrusiveFree_walk(K, backing, index(K, k.v), fuel - 1)

\* mutant of IntrusiveFree_len: the walk breaks after the head
IntrusiveFree_len_head(K, fl, backing) ==
    Len(IntrusiveFree_walk(K, backing, fl.free_head, 1))

\* <IntrusiveFree as FreeListCapacity>::len
IntrusiveFree_len(K, fl, backing) ==
    Len(IntrusiveFree_walk(K, backing, fl.free_head, Len(backing) + 1))

\* F::default() for the configured strategy
FreeList_default(c) ==
    IF c.fl = "KeyList" THEN KeyList_default ELSE IntrusiveFree_default

\* FreeList::alloc for the configured strategy
FreeList_alloc(c, fl, backing) ==
    IF c.fl = "KeyList" THEN KeyList_alloc(fl, backing)
    ELSE IntrusiveFree_alloc(c.K, fl, backing)

\* FreeList::delete for the configured strategy
FreeList_delete(c, fl, key, backing) ==
    IF c.fl = "KeyList" THEN KeyList_delete(c.K, fl, key, backing)
    ELSE IntrusiveFree_delete(c.K, fl, key, backing)

\* RemovalList::try_remove for the configured strategy
FreeList_try_remove(c, fl, key, backing) ==
    IF c.fl = "KeyList" THEN KeyList_try_remove(c.K, fl, key, backing)
    ELSE IntrusiveFree_try_remove(c.K, fl, key, backing)

\* RemovalList::remove for the configured strategy
FreeList_remove(c, fl, key, backing) ==
    IF c.fl = "KeyList" THEN KeyList_remove(c.K, fl, key, backing)
    ELSE IntrusiveFree_remove(c.K, fl, key, backing)

\* NextFreeList::next_free for the configured strategy
FreeList_next_free(c, fl) ==
    IF c.fl = "KeyList" THEN KeyList_next_free(fl)
    ELSE IntrusiveFree_next_free(c.K, fl)

\* FreeListCapacity::len for the configured strategy
FreeList_len(c, fl, backing) ==
    IF c.fl = "KeyList" THEN KeyList_len(fl)
    ELSE IntrusiveFree_len(c.K, fl, backing)

\* FreeList::clear for the configured strategy
FreeList_clear(c, fl) ==
    IF c.fl = "KeyList" THEN <<>> ELSE [free_head |-> UsizeMax]

(* ------------------------------ SlabPool ------------------------------ *)

\* the combinations of free list, slot and key type the trait bounds allow:
\* KeyList needs RemoveSlot (DefaultSlot, CloneSlot), IntrusiveFree needs KeySlot
Configs ==
    {c \in [fl : FreeLists, S : SlotTypes, K : KeyTypes] :
        c.fl = "KeyList" => c.S # "Either"}

\* Result::Ok(key)
Ok(k) == [ok |-> TRUE, v |-> k]

\* Result::Err(value)
Err(v) == [ok |-> FALSE, v |-> v]

\* what a pool call hands back: the pool, the returned value, whether it panicked
PoolResult(p, ret, panic) == [sp |-> p, ret |-> ret, panic |-> panic]

\* struct SlabPool { pool, free_list, key_type }
SlabPool(pool, free_list) == [pool |-> pool, free_list |-> free_list]

\* SlabPool::new
new(c) == SlabPool(<<>>, FreeList_default(c))

\* SlabPool::total_slots
total_slots(p) == Len(p.pool)

\* SlabPool::free_slots
free_slots(c, p) == FreeList_len(c, p.free_list, p.pool)

\* SlabPool::clear
clear(c, p) == SlabPool(<<>>, FreeList_clear(c, p.free_list))

\* SlabPool::next_key
next_key(c, p) ==
    LET next_free == FreeList_next_free(c, p.free_list)
    IN  IF next_free.some THEN next_free ELSE try_new(c.K, Len(p.pool))

\* mutant of try_insert: a slot is appended only while the length is below
\* MAX_INDEX
try_insert_below_max(c, p, v) ==
    LET a == FreeList_alloc(c, p.free_list, p.pool)
    IN  IF a.panic THEN PoolResult(p, None, TRUE)
        ELSE IF a.ret.some
        THEN LET ix == index(c.K, a.ret.v)
             IN  IF ~InBacking(a.backing, ix)
                 THEN PoolResult(SlabPool(a.backing, a.fl), None, TRUE)
                 ELSE PoolResult(
                        SlabPool([a.backing EXCEPT ![ix + 1] = set_value(@, v)], a.fl),
                        Ok(a.ret.v), FALSE)
        ELSE IF Len(p.pool) < MAX_INDEX(c.K)
        THEN PoolResult(SlabPool(Append(a.backing, from_value(c.S, v)), a.fl),
                        Ok(try_new(c.K, Len(p.pool)).v), FALSE)
        ELSE PoolResult(SlabPool(a.backing, a.fl), Err(v), FALSE)

\* mutant of try_insert: the slot is pushed before the key is known to fit
try_insert_push_first(c, p, v) ==
    LET a == FreeList_alloc(c, p.free_list, p.pool)
    IN  IF a.panic THEN PoolResult(p, None, TRUE)
        ELSE IF a.ret.some
        THEN LET ix == index(c.K, a.ret.v)
             IN  IF ~InBacking(a.backing, ix)
                 THEN PoolResult(SlabPool(a.backing, a.fl), None, TRUE)
                 ELSE PoolResult(
                        SlabPool([a.backing EXCEPT ![ix + 1] = set_value(@, v)], a.fl),
                        Ok(a.ret.v), FALSE)
        ELSE LET ix == try_new(c.K, Len(p.pool))
             IN  IF ix.some
                 THEN PoolResult(SlabPool(Append(a.backing, from_value(c.S, v)), a.fl),
                                 Ok(ix.v), FALSE)
                 ELSE PoolResult(SlabPool(Append(a.backing, from_value(c.S, v)), a.fl),
                                 Err(v), FALSE)

\* mutant of try_insert: the pool grows while the key type allows, and a free
\* position is reused only after that
try_insert_grow_first(c, p, v) ==
    LET ix == try_new(c.K, Len(p.pool))
        a  == FreeList_alloc(c, p.free_list, p.pool)
    IN  IF ix.some
        THEN PoolResult(SlabPool(Append(p.pool, from_value(c.S, v)), p.free_list),
                        Ok(ix.v), FALSE)
        ELSE IF a.panic \/ ~a.ret.some \/ ~InBacking(a.backing, index(c.K, a.ret.v))
        THEN PoolResult(p, Err(v), FALSE)
        ELSE PoolResult(
               SlabPool([a.backing EXCEPT ![index(c.K, a.ret.v) + 1] = set_value(@, v)],
                        a.fl),
               Ok(a.ret.v), FALSE)

\* <SlabPool as Insert>::try_insert
try_insert(c, p, v) ==
    LET a == FreeList_alloc(c, p.free_list, p.pool)
    IN  IF a.panic THEN PoolResult(p, None, TRUE)
        ELSE IF a.ret.some
        THEN LET ix == index(c.K, a.ret.v)
             IN  IF ~InBacking(a.backing, ix)
                 THEN PoolResult(SlabPool(a.backing, a.fl), None, TRUE)
                 ELSE PoolResult(
                        SlabPool([a.backing EXCEPT ![ix + 1] = set_value(@, v)], a.fl),
                        Ok(a.ret.v), FALSE)
        ELSE LET ix == try_new(c.K, Len(p.pool))
             IN  IF ix.some
                 THEN PoolResult(SlabPool(Append(a.backing, from_value(c.S, v)), a.fl),
                                 Ok(ix.v), FALSE)
                 ELSE PoolResult(SlabPool(a.backing, a.fl), Err(v), FALSE)

\* <SlabPool as Insert>::insert: try_insert, panicking on Err
insert(c, p, v) ==
    LET r == try_insert(c, p, v)
    IN  IF r.panic \/ ~r.ret.ok THEN PoolResult(r.sp, None, TRUE) ELSE r

\* <SlabPool as Pool>::delete
delete(c, p, key) ==
    LET r == FreeList_delete(c, p.free_list, key, p.pool)
    IN  PoolResult(SlabPool(r.backing, r.fl), None, r.panic)

\* <SlabPool as Take>::try_take (RemovePool::try_remove forwards to it)
try_take(c, p, key) ==
    LET r == FreeList_try_remove(c, p.free_list, key, p.pool)
    IN  PoolResult(SlabPool(r.backing, r.fl), r.ret, r.panic)

\* <SlabPool as Take>::take (RemovePool::remove forwards to it)
take(c, p, key) ==
    LET r == FreeList_remove(c, p.free_list, key, p.pool)
    IN  PoolResult(SlabPool(r.backing, r.fl), r.ret, r.panic)

\* <SlabPool as GetRef>::try_at
try_at(c, p, key) ==
    LET ix == index(c.K, key)
    IN  IF InBacking(p.pool, ix) THEN try_value(p.pool[ix + 1]) ELSE None

\* <SlabPool as GetRef>::at and Index::index: pool[key.index()].value()
at(c, p, key) ==
    LET ix == index(c.K, key)
    IN  IF InBacking(p.pool, ix) /\ try_value(p.pool[ix + 1]).some
        THEN PoolResult(p, try_value(p.pool[ix + 1]), FALSE)
        ELSE PoolResult(p, None, TRUE)

\* a write through <SlabPool as GetMut>::at_mut / IndexMut: *pool.at_mut(key) = v
at_mut(c, p, key, v) ==
    LET ix == index(c.K, key)
    IN  IF InBacking(p.pool, ix) /\ try_value(p.pool[ix + 1]).some
        THEN PoolResult(SlabPool([p.pool EXCEPT ![ix + 1].x = v], p.free_list),
                        None, FALSE)
        ELSE PoolResult(p, None, TRUE)

(* ----------------------- positions of a pool --------------------------- *)

\* the free positions in the order the free list holds them: the KeyList stack
\* from bottom to top, the IntrusiveFree chain from free_head on
FreeChain(c, p) ==
    IF c.fl = "KeyList"
    THEN [i \in 1..Len(p.free_list) |-> index(c.K, p.free_list[i])]
    ELSE IntrusiveFree_walk(c.K, p.pool, p.free_list.free_head, Len(p.pool) + 1)

\* the positions on the free list
FreePositions(c, p) ==
    LET chain == FreeChain(c, p)
    IN  {chain[i] : i \in 1..Len(chain)}

\* the positions addressed by the keys in h
LivePositions(c, h) == {index(c.K, k) : k \in DOMAIN h}

\* the state of position pos of a backing of n slots with the given live and
\* free positions: beyond the backing, live, free, or neither/both
PosStateOf(n, live, free, pos) ==
    IF pos >= n THEN "Unallocated"
    ELSE IF pos \in live /\ pos \notin free THEN "Live"
    ELSE IF pos \in free /\ pos \notin live THEN "Free"
    ELSE "Invalid"

\* the state of position pos of pool p whose client holds the keys of h
PosState(c, p, h, pos) ==
    PosStateOf(Len(p.pool), LivePositions(c, h), FreePositions(c, p), pos)

\* the state of every position up to MaxSlots
PosStates(c, p, h) ==
    LET live == LivePositions(c, h)
        free == FreePositions(c, p)
    IN  [pos \in 0..MaxSlots |-> PosStateOf(Len(p.pool), live, free, pos)]

\* no entry of sequence q occurs twice
NoDup(q) == \A i, j \in 1..Len(q) : q[i] = q[j] => i = j

InsertOps == {"try_insert", "insert"}

RemoveOps == {"delete", "try_take", "take"}

(* ------------------- one pool driven by a client ---------------------- *)
(* cfg  : the pool's type parameters <S, K, F>                              *)
(* sp   : the SlabPool                                                      *)
(* held : the client's outstanding keys, each with the value the client     *)
(*        last stored under it (by insert or through at_mut)                *)
(* hist : what the client has done since new()/clear(): `clean` and `n`     *)
(*        count the inserts of a removal-free run; `freed` is the keys the  *)
(*        client gave up and has not been handed again, oldest first;       *)
(*        `reused` counts the inserts in a row that handed one of them out; *)
(*        `misuse` counts the calls made with a key the client did not hold *)
(* last : the latest call: its name, arguments and result, what the pool's  *)
(*        queries answered just before it (`pre`), and whether it left the  *)
(*        pool as it was (`kept`)                                           *)

\* the keys the client holds
Live == DOMAIN held

\* f with key k bound to v
Bind(f, k, v) == [x \in DOMAIN f \cup {k} |-> IF x = k THEN v ELSE f[x]]

\* f without key k
Unbind(f, k) == [x \in DOMAIN f \ {k} |-> f[x]]

NoHist == [clean |-> TRUE, n |-> 0, freed |-> <<>>, reused |-> 0, misuse |-> 0]

\* the client's record after an insert call that returned r
HistInsert(h, r) ==
    IF r.panic \/ ~r.ret.ok THEN h
    ELSE [clean  |-> h.clean,
          n      |-> IF h.clean THEN h.n + 1 ELSE 0,
          freed  |-> IF h.freed = <<>> THEN <<>>
                     ELSE SubSeq(h.freed, 1, Len(h.freed) - 1),
          reused |-> IF h.freed = <<>> THEN 0 ELSE h.reused + 1,
          misuse |-> h.misuse]

\* the client's record after removing or deleting key k
HistFree(h, k) ==
    [clean |-> FALSE, n |-> 0, freed |-> Append(h.freed, k), reused |-> 0,
     misuse |-> h.misuse]

\* what the queries of pool p answer to a client with keys h and record hi
\* that is about to make a call on key (None: the call takes no key)
Observe(c, p, h, hi, key) ==
    [total_slots |-> total_slots(p),
     free_slots  |-> free_slots(c, p),
     next_key    |-> next_key(c, p),
     state       |-> PosStates(c, p, h),
     stored      |-> IF key.some THEN try_at(c, p, key.v) ELSE None,
     held        |-> IF key.some /\ key.v \in DOMAIN h THEN Some(h[key.v])
                     ELSE None,
     clean       |-> hi.clean,
     n           |-> hi.n,
     due         |-> IF hi.freed = <<>> THEN None
                     ELSE Some(hi.freed[Len(hi.freed)])]

\* the call op(key, val) that returned r, made on pool p by a client with
\* keys h and record hi
Call(c, p, h, hi, op, key, val, r) ==
    [op |-> op, key |-> key, val |-> val, ret |-> r.ret, panic |-> r.panic,
     kept |-> r.sp = p,
     pre  |-> Observe(c, p, h, hi,
                      IF op \in RemoveOps \cup {"at_mut"} THEN Some(key) ELSE None)]

\* memory allows the push an insert into p would make
MayGrow(c, p) ==
    \/ FreeList_alloc(c, p.free_list, p.pool).ret.some
    \/ ~try_new(c.K, Len(p.pool)).some
    \/ Len(p.pool) < MaxSlots

Init ==
    /\ cfg \in Configs
    /\ sp = new(cfg)
    /\ held = << >>
    /\ hist = NoHist
    /\ last = Call(cfg, sp, held, hist, "new", 0, 0, PoolResult(sp, None, FALSE))
    /\ kp = << >>
    /\ ip = << >>
    /\ elast = << >>
    /\ sl = << >>
    /\ own = << >>
    /\ slast = << >>

\* pool.try_insert(v)
TryInsert(v) ==
    /\ MayGrow(cfg, sp)
    /\ LET r == try_insert(cfg, sp, v)
       IN  /\ sp' = r.sp
           /\ held' = IF ~r.panic /\ r.ret.ok THEN Bind(held, r.ret.v, v) ELSE held
           /\ hist' = HistInsert(hist, r)
           /\ last' = Call(cfg, sp, held, hist, "try_insert", 0, v, r)
    /\ UNCHANGED <<cfg, kp, ip, elast, sl, own, slast>>

\* pool.insert(v)
Insert(v) ==
    /\ MayGrow(cfg, sp)
    /\ LET r == insert(cfg, sp, v)
       IN  /\ sp' = r.sp
           /\ held' = IF ~r.panic THEN Bind(held, r.ret.v, v) ELSE held
           /\ hist' = HistInsert(hist, r)
           /\ last' = Call(cfg, sp, held, hist, "insert", 0, v, r)
    /\ UNCHANGED <<cfg, kp, ip, elast, sl, own, slast>>

\* pool.delete(k) of a key the client holds
Delete(k) ==
    /\ k \in Live
    /\ LET r == delete(cfg, sp, k)
       IN  /\ sp' = r.sp
           /\ last' = Call(cfg, sp, held, hist, "delete", k, 0, r)
    /\ held' = Unbind(held, k)
    /\ hist' = HistFree(hist, k)
    /\ UNCHANGED <<cfg, kp, ip, elast, sl, own, slast>>

\* pool.try_take(k) / pool.try_remove(k) of a key the client holds
TryTake(k) ==
    /\ k \in Live
    /\ LET r == try_take(cfg, sp, k)
       IN  /\ sp' = r.sp
           /\ last' = Call(cfg, sp, held, hist, "try_take", k, 0, r)
    /\ held' = Unbind(held, k)
    /\ hist' = HistFree(hist, k)
    /\ UNCHANGED <<cfg, kp, ip, elast, sl, own, slast>>

\* pool.take(k) / pool.remove(k) of a key the client holds
Take(k) ==
    /\ k \in Live
    /\ LET r == take(cfg, sp, k)
       IN  /\ sp' = r.sp
           /\ last' = Call(cfg, sp, held, hist, "take", k, 0, r)
    /\ held' = Unbind(held, k)
    /\ hist' = HistFree(hist, k)
    /\ UNCHANGED <<cfg, kp, ip, elast, sl, own, slast>>

\* *pool.at_mut(k) = v on a key the client holds
AtMut(k, v) ==
    /\ k \in Live
    /\ LET r == at_mut(cfg, sp, k, v)
       IN  /\ sp' = r.sp
           /\ held' = IF r.panic THEN held ELSE Bind(held, k, v)
           /\ last' = Call(cfg, sp, held, hist, "at_mut", k, v, r)
    /\ UNCHANGED <<cfg, hist, kp, ip, elast, sl, own, slast>>

\* pool.clear(): every key the client holds is gone
Clear ==
    /\ sp' = clear(cfg, sp)
    /\ held' = << >>
    /\ hist' = NoHist
    /\ last' = Call(cfg, sp, held, hist, "clear", 0, 0,
                    PoolResult(clear(cfg, sp), None, FALSE))
    /\ UNCHANGED <<cfg, kp, ip, elast, sl, own, slast>>

\* the key representations of the configured key type
KeyReps == -(NarrowMax + 1)..MaxSlots

Next ==
    \/ \E v \in Values : TryInsert(v)
    \/ \E v \in Values : Insert(v)
    \/ \E k \in KeyReps : Delete(k)
    \/ \E k \in KeyReps : TryTake(k)
    \/ \E k \in KeyReps : Take(k)
    \/ \E k \in KeyReps, v \in Values : AtMut(k, v)
    \/ Clear

Spec == Init /\ [][Next]_vars

(* ------------------------------ claims -------------------------------- *)

\* C1: in every state reached by inserts and removes/deletes of live keys, for
\* both free-list strategies, every backing position 0..total_slots is either
\* live (addressed by exactly one outstanding key) or on the free list, never
\* both and never neither, and no position is on the free list twice.
C1_LiveFreePartition ==
    /\ \A pos \in 0..(total_slots(sp) - 1) :
          (pos \in LivePositions(cfg, held)) # (pos \in FreePositions(cfg, sp))
    /\ LivePositions(cfg, held) \cup FreePositions(cfg, sp) \subseteq
          0..(total_slots(sp) - 1)
    /\ NoDup(FreeChain(cfg, sp))
    /\ Cardinality(LivePositions(cfg, held)) = Cardinality(Live)

\* C1 witness: an intrusive chain of two free positions beside a live one
C1_Witness ==
    /\ cfg.fl = "IntrusiveFree"
    /\ last.op \in RemoveOps
    /\ Len(FreeChain(cfg, sp)) = 2
    /\ Live # {}

\* C2: if next_key() returns Some(k) the immediately following try_insert
\* returns Ok(k), and next_key() returns None exactly when that try_insert
\* returns Err.
C2_NextKeyPredictsInsert ==
    last.op = "try_insert" =>
        /\ last.pre.next_key.some => last.ret = Ok(last.pre.next_key.v)
        /\ ~last.pre.next_key.some <=> ~last.ret.ok

\* C3: LIFO reuse: when keys k1, ..., kn are removed or deleted in that order
\* with no insert in between, the following inserts return kn, ..., k1: each
\* insert returns the key given up latest among those not yet handed out
\* again.
C3_LifoReuse ==
    (last.op \in InsertOps /\ last.pre.due.some) =>
        /\ ~last.panic
        /\ last.ret = Ok(last.pre.due.v)

\* C3 witness: two keys were freed and two inserts in a row have handed both
\* out again
C3_Witness ==
    /\ last.op \in InsertOps
    /\ last.pre.due.some
    /\ hist.reused >= 2

\* C4: a position changes state only Unallocated -> Live (an insert that
\* appends it), Live -> Free (remove/delete of its key) and Free -> Live (an
\* insert that reuses it); an insert never returns a key that is live, and a
\* position becomes Unallocated again only through clear().
C4_KeyStateMachine ==
    /\ \A pos \in 0..MaxSlots :
          LET a == last.pre.state[pos]
              b == PosStates(cfg, sp, held)[pos]
          IN  \/ a = b /\ a # "Invalid"
              \/ /\ a = "Unallocated" /\ b = "Live"
                 /\ last.op \in InsertOps /\ last.ret.ok
                 /\ index(cfg.K, last.ret.v) = pos /\ pos = last.pre.total_slots
              \/ /\ a = "Live" /\ b = "Free"
                 /\ last.op \in RemoveOps /\ index(cfg.K, last.key) = pos
              \/ /\ a = "Free" /\ b = "Live"
                 /\ last.op \in InsertOps /\ last.ret.ok
                 /\ index(cfg.K, last.ret.v) = pos
              \/ /\ a # "Invalid" /\ b = "Unallocated" /\ last.op = "clear"
    /\ (last.op \in InsertOps /\ ~last.panic /\ last.ret.ok)
          => last.pre.state[index(cfg.K, last.ret.v)] \in {"Unallocated", "Free"}

\* C4 witness: an insert has just reused a position that had been freed
C4_Witness ==
    /\ last.op \in InsertOps /\ ~last.panic /\ last.ret.ok
    /\ last.pre.state[index(cfg.K, last.ret.v)] = "Free"
    /\ PosState(cfg, sp, held, index(cfg.K, last.ret.v)) = "Live"

\* C5: starting from an empty pool, after N successful inserts and no
\* removal, the next insert succeeds iff N <= MAX_INDEX, and it returns the
\* key of index N.
C5_InsertUntilMaxIndex ==
    (last.op = "try_insert" /\ last.pre.clean) =>
        /\ last.ret.ok <=> last.pre.n <= MAX_INDEX(cfg.K)
        /\ last.ret.ok => /\ index(cfg.K, last.ret.v) = last.pre.n
                          /\ last.ret.v = try_new(cfg.K, last.pre.n).v

\* C5 witness: insert number MAX_INDEX + 2 of a removal-free run has failed
C5_Witness ==
    /\ last.op = "try_insert" /\ ~last.ret.ok
    /\ last.pre.clean /\ last.pre.n = MAX_INDEX(cfg.K) + 1

\* C6 as stated: with the free list empty, try_insert appends only if the
\* backing length is strictly below MAX_INDEX, and fails when the length is
\* MAX_INDEX or more.
C6_AppendsOnlyBelowMaxIndex ==
    (last.op = "try_insert" /\ last.pre.free_slots = 0) =>
        /\ total_slots(sp) > last.pre.total_slots
              => last.pre.total_slots < MAX_INDEX(cfg.K)
        /\ last.pre.total_slots >= MAX_INDEX(cfg.K) => ~last.ret.ok

\* C6 amended: with the free list empty, try_insert appends one slot and
\* returns the key of the old length iff the backing length is at most
\* MAX_INDEX; it fails, appending nothing, iff the length exceeds MAX_INDEX.
C6_AppendsUpToMaxIndex ==
    (last.op = "try_insert" /\ last.pre.free_slots = 0) =>
        /\ last.ret.ok <=> last.pre.total_slots <= MAX_INDEX(cfg.K)
        /\ last.ret.ok =>
             /\ total_slots(sp) = last.pre.total_slots + 1
             /\ index(cfg.K, last.ret.v) = last.pre.total_slots
        /\ ~last.ret.ok => total_slots(sp) = last.pre.total_slots

\* C6 witness: a try_insert has appended the slot of index MAX_INDEX
C6_Witness ==
    /\ last.op = "try_insert" /\ last.ret.ok
    /\ last.pre.free_slots = 0
    /\ last.pre.total_slots = MAX_INDEX(cfg.K)
    /\ index(cfg.K, last.ret.v) = MAX_INDEX(cfg.K)
    /\ total_slots(sp) = MAX_INDEX(cfg.K) + 1

\* C7: when the pool has no free position and total_slots = MAX_INDEX + 1,
\* try_insert(v) returns Err(v) with the same v and leaves the backing slots,
\* the free list, total_slots and free_slots unchanged; try_insert fails, and
\* the panicking insert panics, in exactly that situation.
C7_ExhaustionChangesNothing ==
    /\ last.op = "try_insert" =>
         /\ ~last.panic
         /\ ~last.ret.ok <=> (/\ last.pre.free_slots = 0
                              /\ last.pre.total_slots = MAX_INDEX(cfg.K) + 1)
         /\ ~last.ret.ok =>
              /\ last.ret = Err(last.val)
              /\ last.kept
              /\ total_slots(sp) = last.pre.total_slots
              /\ free_slots(cfg, sp) = last.pre.free_slots
    /\ last.op = "insert" =>
         /\ last.panic <=> (/\ last.pre.free_slots = 0
                            /\ last.pre.total_slots = MAX_INDEX(cfg.K) + 1)
         /\ last.panic => last.kept

\* C7 witness: a try_insert of a non-default value into a full pool has failed
C7_Witness ==
    /\ last.op = "try_insert" /\ ~last.ret.ok
    /\ last.val # DefaultValue
    /\ total_slots(sp) = MAX_INDEX(cfg.K) + 1
    /\ Cardinality(Live) = total_slots(sp)
    /\ ~hist.clean

\* C8: from the insert that returned k until k is removed or deleted, at(k),
\* try_at(k) and pool[k] read the value inserted under k or last written
\* through at_mut(k), whatever is done with other keys in between.
C8_ValueStability ==
    \A k \in Live :
        /\ at(cfg, sp, k) = PoolResult(sp, Some(held[k]), FALSE)
        /\ try_at(cfg, sp, k) = Some(held[k])

\* C8 witness: a key keeps a non-default value while another key has just been
\* freed, with live keys on both sides of the freed position
C8_Witness ==
    /\ last.op \in RemoveOps
    /\ hist.freed # <<>>
    /\ \E k \in Live : held[k] # DefaultValue /\ index(cfg.K, k) < index(cfg.K, last.key)
    /\ \E k \in Live : index(cfg.K, k) > index(cfg.K, last.key)

\* C9: take / remove / try_take / try_remove of a live key k returns exactly
\* the value stored at k at the time of the call, for both free-list
\* strategies and every slot variant.
C9_RemoveReturnsValue ==
    last.op \in {"try_take", "take"} =>
        /\ ~last.panic
        /\ last.ret = last.pre.held
        /\ last.ret = last.pre.stored
        /\ last.ret.some

\* C9 witness: a take has handed back a non-default value out of a
\* default-on-remove slot
C9_Witness ==
    /\ last.op = "take" /\ ~last.panic
    /\ last.ret = Some(DefaultValue + 1)
    /\ cfg.S = "DefaultSlot"

(* ------------- two pools, one per strategy, in lockstep ---------------- *)
(* The same client trace (the test insertion_removal_stress replays one     *)
(* trace on every pool type) is applied to kp, a SlabPool with KeyList, and *)
(* to ip, a SlabPool with IntrusiveFree, of the same key type.  held holds  *)
(* the client's outstanding keys, elast the latest call and what each pool  *)
(* returned from it.                                                        *)

\* the slot types of the two pools and their common key type
EquivConfigs == [kS : {"DefaultSlot", "CloneSlot"}, iS : SlotTypes, K : KeyTypes]

\* SlabPool<kS, K, KeyList<K>>
KeyListCfg(c) == [fl |-> "KeyList", S |-> c.kS, K |-> c.K]

\* SlabPool<iS, K, IntrusiveFree> = KeySlabPool<iS, K>
IntrusiveCfg(c) == [fl |-> "IntrusiveFree", S |-> c.iS, K |-> c.K]

\* what one pool returned from a call
Returned(r) == [ret |-> r.ret, panic |-> r.panic]

BothCall(op, key, val, rk, ri) ==
    [op |-> op, key |-> key, val |-> val, k |-> Returned(rk), i |-> Returned(ri)]

InitEquiv ==
    /\ cfg \in EquivConfigs
    /\ kp = new(KeyListCfg(cfg))
    /\ ip = new(IntrusiveCfg(cfg))
    /\ held = << >>
    /\ elast = BothCall("new", 0, 0, PoolResult(kp, None, FALSE),
                        PoolResult(ip, None, FALSE))
    /\ sp = << >>
    /\ hist = NoHist
    /\ last = << >>
    /\ sl = << >>
    /\ own = << >>
    /\ slast = << >>

\* try_insert(v) on both pools
BothTryInsert(v) ==
    /\ MayGrow(KeyListCfg(cfg), kp)
    /\ MayGrow(IntrusiveCfg(cfg), ip)
    /\ LET rk == try_insert(KeyListCfg(cfg), kp, v)
           ri == try_insert(IntrusiveCfg(cfg), ip, v)
       IN  /\ kp' = rk.sp
           /\ ip' = ri.sp
           /\ held' = IF ~rk.panic /\ rk.ret.ok THEN Bind(held, rk.ret.v, v) ELSE held
           /\ elast' = BothCall("try_insert", 0, v, rk, ri)
    /\ UNCHANGED <<cfg, sp, hist, last, sl, own, slast>>

\* remove(k) / take(k) on both pools, k a key the client holds
BothTake(k) ==
    /\ k \in Live
    /\ LET rk == take(KeyListCfg(cfg), kp, k)
           ri == take(IntrusiveCfg(cfg), ip, k)
       IN  /\ kp' = rk.sp
           /\ ip' = ri.sp
           /\ elast' = BothCall("take", k, 0, rk, ri)
    /\ held' = Unbind(held, k)
    /\ UNCHANGED <<cfg, sp, hist, last, sl, own, slast>>

\* try_remove(k) / try_take(k) on both pools, k a key the client holds
BothTryTake(k) ==
    /\ k \in Live
    /\ LET rk == try_take(KeyListCfg(cfg), kp, k)
           ri == try_take(IntrusiveCfg(cfg), ip, k)
       IN  /\ kp' = rk.sp
           /\ ip' = ri.sp
           /\ elast' = BothCall("try_take", k, 0, rk, ri)
    /\ held' = Unbind(held, k)
    /\ UNCHANGED <<cfg, sp, hist, last, sl, own, slast>>

\* delete(k) on both pools, k a key the client holds
BothDelete(k) ==
    /\ k \in Live
    /\ LET rk == delete(KeyListCfg(cfg), kp, k)
           ri == delete(IntrusiveCfg(cfg), ip, k)
       IN  /\ kp' = rk.sp
           /\ ip' = ri.sp
           /\ elast' = BothCall("delete", k, 0, rk, ri)
    /\ held' = Unbind(held, k)
    /\ UNCHANGED <<cfg, sp, hist, last, sl, own, slast>>

NextEquiv ==
    \/ \E v \in Values : BothTryInsert(v)
    \/ \E k \in KeyReps : BothTake(k)
    \/ \E k \in KeyReps : BothTryTake(k)
    \/ \E k \in KeyReps : BothDelete(k)

SpecEquiv == InitEquiv /\ [][NextEquiv]_vars

\* C10: on every trace of inserts and of removes of live keys from an empty
\* pool, the pool with KeyList and the pool with IntrusiveFree return the
\* same key from every insert and the same value from every remove.
C10_StrategiesAgree ==
    /\ elast.k = elast.i
    /\ total_slots(kp) = total_slots(ip)

\* C10 witness: both pools have handed out again a position that was freed
\* while a position above it stayed live, and a remove has since returned a
\* non-default value
C10_Witness ==
    /\ elast.op \in {"take", "try_take"}
    /\ elast.k.ret = Some(DefaultValue + 1)
    /\ elast.i.ret = Some(DefaultValue + 1)
    /\ KeyList_len(kp.free_list) = 2
    /\ Live # {}

(* ------------- one pool driven by a client that misuses it ------------- *)
(* The client of Spec, which in addition presents keys it does not hold:   *)
(* keys it has already given up and values of the key type that no insert  *)
(* returned.  held stays the set of keys the client legitimately holds.    *)

\* the values of key type K among the representations explored
RepsOf(K) ==
    {k \in KeyReps : /\ K \in {"u8", "usize", "u32"} => k >= 0
                     /\ K # "usize" => k <= MAX_INDEX(K)}

\* the client's record after a call with a key it did not hold
HistMisuse(h) == [h EXCEPT !.misuse = h.misuse + 1]

\* pool.delete(k) of a key the client does not hold
DeleteUnrecognized(k) ==
    /\ k \in RepsOf(cfg.K) \ Live
    /\ hist.misuse < MaxMisuse
    /\ LET r == delete(cfg, sp, k)
       IN  /\ sp' = r.sp
           /\ last' = Call(cfg, sp, held, hist, "delete_unrecognized", k, 0, r)
    /\ hist' = HistMisuse(hist)
    /\ UNCHANGED <<cfg, held, kp, ip, elast, sl, own, slast>>

\* pool.try_take(k) of a key the client does not hold
TryTakeUnrecognized(k) ==
    /\ k \in RepsOf(cfg.K) \ Live
    /\ hist.misuse < MaxMisuse
    /\ LET r == try_take(cfg, sp, k)
       IN  /\ sp' = r.sp
           /\ last' = Call(cfg, sp, held, hist, "try_take_unrecognized", k, 0, r)
    /\ hist' = HistMisuse(hist)
    /\ UNCHANGED <<cfg, held, kp, ip, elast, sl, own, slast>>

NextMisuse ==
    \/ \E v \in Values : TryInsert(v)
    \/ \E k \in KeyReps : Delete(k)
    \/ \E k \in KeyReps : TryTake(k)
    \/ \E k \in KeyReps : DeleteUnrecognized(k)
    \/ \E k \in KeyReps : TryTakeUnrecognized(k)

SpecMisuse == Init /\ [][NextMisuse]_vars

\* the pool is in a valid state: the free chain is finite and acyclic and
\* every position of the backing is exactly one of live or free
PoolValid(c, p, h) ==
    /\ NoDup(FreeChain(c, p))
    /\ \A pos \in 0..(total_slots(p) - 1) :
          (pos \in LivePositions(c, h)) # (pos \in FreePositions(c, p))
    /\ FreePositions(c, p) \subseteq 0..(total_slots(p) - 1)

\* C11: after delete(k) or try_take(k) of an unrecognized key (one already
\* deleted, or never returned by insert) the call has panicked or the pool is
\* in a valid state, and no later insert returns a key that is live.
C11_MisuseKeepsPoolValid ==
    /\ (last.op \in {"delete_unrecognized", "try_take_unrecognized"}
          /\ ~last.panic) => PoolValid(cfg, sp, held)
    /\ (last.op \in InsertOps /\ ~last.panic /\ last.ret.ok)
          => last.pre.state[index(cfg.K, last.ret.v)] \in {"Unallocated", "Free"}

(* ----------------------------- size classes ---------------------------- *)
(* Exp2Size<N, B> of src/src/pool/slice/free.rs.  A size-class mapping s    *)
(* is [N, B, build]: the two const parameters and the build profile, which  *)
(* decides what an overflowing shift does (a panic with overflow checks on, *)
(* as in debug and test builds; the shift amount wrapped to the word width  *)
(* with them off, as in release builds).                                    *)

Builds == {"debug", "release"}

\* a usize result, or a panic
Val(x) == [panic |-> FALSE, v |-> x]

Panic == [panic |-> TRUE, v |-> 0]

\* usize::ilog2 of x >= 1
RECURSIVE ilog2(_)
ilog2(x) == IF x <= 1 THEN 0 ELSE 1 + ilog2(x \div 2)

\* 1usize << sh
Shl1(build, sh) ==
    IF sh < WordBits THEN Val(Pow2(sh))
    ELSE IF build = "debug" THEN Panic
    ELSE Val(Pow2(sh % WordBits))

\* mutant of size_class_contained: a capacity below the smallest class is put
\* in the smallest class
size_class_contained_floor(s, cap) ==
    IF cap = 0 THEN 0
    ELSE IF cap < Pow2(s.B) THEN 1
    ELSE LET sub == IF ilog2(cap) >= s.B THEN ilog2(cap) - s.B ELSE 0
         IN  1 + (sub \div s.N)

\* mutant of size_class_contained: every capacity of a class or more is put
\* in the smallest class
size_class_contained_first(s, cap) ==
    IF cap < Pow2(s.B) THEN 0 ELSE 1

\* <Exp2Size as SizeClasses>::size_class_contained
size_class_contained(s, cap) ==
    IF cap < Pow2(s.B) THEN 0
    ELSE LET sub == IF ilog2(cap) >= s.B THEN ilog2(cap) - s.B ELSE 0
         IN  1 + (sub \div s.N)

\* mutant of <Exp2Size as SizeClasses>::capacity: the classes are counted
\* from 0
capacity_from_zero(s, size_class) == Shl1(s.build, s.B + size_class * s.N)

\* <Exp2Size as SizeClasses>::capacity
capacity(s, size_class) ==
    IF size_class = 0 THEN Val(0)
    ELSE Shl1(s.build, s.B + (size_class - 1) * s.N)

\* mutant of size_class_containing: the class is rounded down
size_class_containing_floor(s, cap) == size_class_contained(s, cap)

\* <Exp2Size as SizeClasses>::size_class_containing
size_class_containing(s, cap) ==
    LET contained == size_class_contained(s, cap)
    IN  contained + (IF capacity(s, contained).v < cap THEN 1 ELSE 0)

\* SizeClasses::round_up_capacity
round_up_capacity(s, cap) == capacity(s, size_class_containing(s, cap))

\* SizeClasses::round_down_capacity
round_down_capacity(s, cap) == capacity(s, size_class_contained(s, cap))

\* mutant of split_size_class: the split source is two classes up
split_size_class_skip(s, size_class) == Some(size_class + 2)

\* mutant of split_size_class: a class is its own split source
split_size_class_same(s, size_class) == Some(size_class)

\* <Exp2Size as SizeClasses>::split_size_class
split_size_class(s, size_class) == Some(size_class + 1)

\* the size classes of s that are in bounds: 0 and those whose capacity is a
\* usize
ClassesOf(s) == {0} \cup {c \in 1..(WordBits + 1) : s.B + (c - 1) * s.N < WordBits}

(* ------------------ size-class queries on Exp2Size<N, B> ---------------- *)
(* sl holds the mapping, slast the latest query and its answers.            *)

\* the mappings queried: Exp2Size<N, B> of check_exp2_size_classes, scaled
SizeConfigs == [N : {1, 2}, B : {0, 1, 2}, build : Builds]

InitSizes ==
    /\ sl \in {[size_classes |-> s] : s \in SizeConfigs}
    /\ slast = [op |-> "new"]
    /\ own = << >>
    /\ cfg = << >>
    /\ sp = << >>
    /\ held = << >>
    /\ hist = << >>
    /\ last = << >>
    /\ kp = << >>
    /\ ip = << >>
    /\ elast = << >>

\* the queries of check_exp2_size_classes on capacity cap
Classify(cap) ==
    /\ slast' = [op         |-> "classify",
                 cap        |-> cap,
                 containing |-> size_class_containing(sl.size_classes, cap),
                 contained  |-> size_class_contained(sl.size_classes, cap),
                 round_up   |-> round_up_capacity(sl.size_classes, cap),
                 round_down |-> round_down_capacity(sl.size_classes, cap)]
    /\ UNCHANGED <<cfg, sp, held, hist, last, kp, ip, elast, sl, own>>

\* classes.capacity(i) and the capacity of the class after it, as
\* check_exp2_size_classes walks the classes
Capacity(size_class) ==
    /\ slast' = [op         |-> "capacity",
                 size_class |-> size_class,
                 capacity   |-> capacity(sl.size_classes, size_class),
                 next       |-> capacity(sl.size_classes, size_class + 1)]
    /\ UNCHANGED <<cfg, sp, held, hist, last, kp, ip, elast, sl, own>>

NextSizes ==
    \/ \E cap \in 0..UsizeMax : Classify(cap)
    \/ \E size_class \in 0..(WordBits + 1) : Capacity(size_class)

SpecSizes == InitSizes /\ [][NextSizes]_vars

\* C20: for every capacity cap of the machine word, size_class_containing(cap)
\* is the smallest class whose capacity is at least cap and
\* size_class_contained(cap) the largest class whose capacity is at most cap
\* (both 0 for cap = 0); on a class capacity both return that class, and
\* size_class_containing(capacity(c) + 1) = c + 1.
C20_SizeClassBounds ==
    slast.op = "classify" =>
        LET s  == sl.size_classes
            up == {c \in ClassesOf(s) : capacity(s, c).v >= slast.cap}
            dn == {c \in ClassesOf(s) : capacity(s, c).v <= slast.cap}
        IN  /\ slast.containing \in up
            /\ \A c \in up : slast.containing <= c
            /\ slast.contained \in dn
            /\ \A c \in dn : c <= slast.contained
            /\ slast.cap = 0 => slast.containing = 0 /\ slast.contained = 0
            /\ \A c \in ClassesOf(s) \ {0} :
                  /\ slast.cap = capacity(s, c).v =>
                        slast.containing = c /\ slast.contained = c
                  /\ slast.cap = capacity(s, c).v + 1 => slast.containing = c + 1

(* --------------------------- IntrusiveClasses -------------------------- *)
(* An allocator a is [K, size_classes, free_heads, backing]: the key type,  *)
(* the fields of IntrusiveClasses<Exp2Size<N, B>> and the backing slice the *)
(* caller passes to every call.  A backing slot is a cell holding one key   *)
(* (set_key stores it, key() reads it), as the integer cells of the test    *)
(* free_list_alloc.  free_heads[c] is the source's free_heads[c - 1].       *)

\* Slice(K, K)
Slice(k0, k1) == <<k0, k1>>

\* an allocator after a call, what the call returned and whether it panicked
SlResult(a, ret, panic) == [sl |-> a, ret |-> ret, panic |-> panic]

\* Vec::resize(new_len, usize::MAX) when the Vec is shorter than new_len
ResizeHeads(free_heads, new_len) ==
    IF Len(free_heads) < new_len
    THEN [i \in 1..new_len |->
             IF i <= Len(free_heads) THEN free_heads[i] ELSE UsizeMax]
    ELSE free_heads

\* mutant of IntrusiveClasses_dealloc_overlap: the slack begins on the last unit of
\* the block pushed
RECURSIVE IntrusiveClasses_dealloc_overlap(_, _)
IntrusiveClasses_dealloc_overlap(a, alloc) ==
    LET begin == index(a.K, alloc[1])
        end   == index(a.K, alloc[2])
        len   == IF end >= begin THEN Val(end - begin)
                 ELSE IF a.size_classes.build = "debug" THEN Panic
                 ELSE Val(AsUsize(end - begin))
    IN  IF len.panic THEN SlResult(a, None, TRUE)
        ELSE LET size_class == size_class_contained(a.size_classes, len.v)
             IN  IF size_class = 0 THEN SlResult(a, None, FALSE)
                 ELSE LET heads == ResizeHeads(a.free_heads, size_class)
                          old_free_head == heads[size_class]
                          new_free_head == begin
                          link == IF try_new(a.K, old_free_head).some
                                  THEN try_new(a.K, old_free_head).v
                                  ELSE alloc[1]
                          begin_slack ==
                              AsUsize(begin + capacity(a.size_classes, size_class).v - 1)
                      IN  IF new_free_head >= Len(a.backing)
                          THEN SlResult([a EXCEPT !.free_heads = heads], None, TRUE)
                          ELSE IntrusiveClasses_dealloc_overlap(
                                   [a EXCEPT
                                      !.free_heads = [heads EXCEPT ![size_class] = new_free_head],
                                      !.backing = [a.backing EXCEPT ![new_free_head + 1] = link]],
                                   Slice(new_unchecked(a.K, begin_slack), alloc[2]))

\* <IntrusiveClasses as FreeSlices>::dealloc
RECURSIVE IntrusiveClasses_dealloc(_, _)
IntrusiveClasses_dealloc(a, alloc) ==
    LET begin == index(a.K, alloc[1])
        end   == index(a.K, alloc[2])
        len   == IF end >= begin THEN Val(end - begin)
                 ELSE IF a.size_classes.build = "debug" THEN Panic
                 ELSE Val(AsUsize(end - begin))
    IN  IF len.panic THEN SlResult(a, None, TRUE)
        ELSE LET size_class == size_class_contained(a.size_classes, len.v)
             IN  IF size_class = 0 THEN SlResult(a, None, FALSE)
                 ELSE LET heads == ResizeHeads(a.free_heads, size_class)
                          old_free_head == heads[size_class]
                          new_free_head == begin
                          link == IF try_new(a.K, old_free_head).some
                                  THEN try_new(a.K, old_free_head).v
                                  ELSE alloc[1]
                          begin_slack ==
                              AsUsize(begin + capacity(a.size_classes, size_class).v)
                      IN  IF new_free_head >= Len(a.backing)
                          THEN SlResult([a EXCEPT !.free_heads = heads], None, TRUE)
                          ELSE IntrusiveClasses_dealloc(
                                   [a EXCEPT
                                      !.free_heads = [heads EXCEPT ![size_class] = new_free_head],
                                      !.backing = [a.backing EXCEPT ![new_free_head + 1] = link]],
                                   Slice(new_unchecked(a.K, begin_slack), alloc[2]))

\* mutant of alloc_size_class_unlink: the range returned is one unit short
alloc_size_class_unlink_short(a, size_class, cap, next_index, free_head) ==
    LET heads == IF next_index = free_head
                 THEN IF size_class = Len(a.free_heads)
                      THEN SubSeq(a.free_heads, 1, Len(a.free_heads) - 1)
                      ELSE [a.free_heads EXCEPT ![size_class] = UsizeMax]
                 ELSE [a.free_heads EXCEPT ![size_class] = next_index]
    IN  SlResult([a EXCEPT !.free_heads = heads],
                 Some(Slice(new_unchecked(a.K, free_head),
                            new_unchecked(a.K, AsUsize(free_head + cap - 1)))),
                 FALSE)

\* mutant of alloc_size_class_unlink: the block behind the head is returned
alloc_size_class_unlink_next(a, size_class, cap, next_index, free_head) ==
    LET heads == IF next_index = free_head
                 THEN IF size_class = Len(a.free_heads)
                      THEN SubSeq(a.free_heads, 1, Len(a.free_heads) - 1)
                      ELSE [a.free_heads EXCEPT ![size_class] = UsizeMax]
                 ELSE [a.free_heads EXCEPT ![size_class] = next_index]
    IN  SlResult([a EXCEPT !.free_heads = heads],
                 Some(Slice(new_unchecked(a.K, next_index),
                            new_unchecked(a.K, AsUsize(next_index + cap)))),
                 FALSE)

\* the tail of alloc_size_class: unlink the block at free_head, whose
\* successor is next_index, from the list of size_class and return it
alloc_size_class_unlink(a, size_class, cap, next_index, free_head) ==
    LET heads == IF next_index = free_head
                 THEN IF size_class = Len(a.free_heads)
                      THEN SubSeq(a.free_heads, 1, Len(a.free_heads) - 1)
                      ELSE [a.free_heads EXCEPT ![size_class] = UsizeMax]
                 ELSE [a.free_heads EXCEPT ![size_class] = next_index]
    IN  SlResult([a EXCEPT !.free_heads = heads],
                 Some(Slice(new_unchecked(a.K, free_head),
                            new_unchecked(a.K, AsUsize(free_head + cap)))),
                 FALSE)

\* mutant of IntrusiveClasses::alloc_size_class: a class whose free list is
\* empty is not served from the class above
alloc_size_class_nosplit(a, size_class) ==
    IF size_class = 0 THEN SlResult(a, None, FALSE)
    ELSE LET cap == capacity(a.size_classes, size_class)
         IN  IF cap.panic THEN SlResult(a, None, TRUE)
             ELSE IF size_class > Len(a.free_heads) THEN SlResult(a, None, FALSE)
             ELSE IF a.free_heads[size_class] < Len(a.backing)
             THEN alloc_size_class_unlink(
                      a, size_class, cap.v,
                      index(a.K, a.backing[a.free_heads[size_class] + 1]),
                      a.free_heads[size_class])
             ELSE SlResult(a, None, FALSE)

\* IntrusiveClasses::alloc_size_class
RECURSIVE alloc_size_class(_, _)
alloc_size_class(a, size_class) ==
    IF size_class = 0 THEN SlResult(a, None, FALSE)
    ELSE LET cap == capacity(a.size_classes, size_class)
         IN  IF cap.panic THEN SlResult(a, None, TRUE)
             ELSE IF size_class > Len(a.free_heads) THEN SlResult(a, None, FALSE)
             ELSE IF a.free_heads[size_class] < Len(a.backing)
             THEN alloc_size_class_unlink(
                      a, size_class, cap.v,
                      index(a.K, a.backing[a.free_heads[size_class] + 1]),
                      a.free_heads[size_class])
             ELSE IF /\ a.size_classes.build = "debug"
                     /\ a.free_heads[size_class] # UsizeMax
             THEN SlResult(a, None, TRUE)
             ELSE LET upper_class == split_size_class(a.size_classes, size_class)
                      up == IF upper_class.some
                            THEN alloc_size_class(a, upper_class.v)
                            ELSE SlResult(a, None, FALSE)
                  IN  IF up.panic \/ ~up.ret.some THEN up
                      ELSE LET begin == index(a.K, up.ret.v[1])
                               slack == Slice(new_unchecked(a.K, AsUsize(begin + cap.v)),
                                              up.ret.v[2])
                               d == IntrusiveClasses_dealloc(up.sl, slack)
                           IN  IF d.panic THEN d
                               ELSE IF size_class > Len(d.sl.free_heads)
                               THEN SlResult(d.sl, None, TRUE)
                               ELSE alloc_size_class_unlink(
                                        d.sl, size_class, cap.v,
                                        d.sl.free_heads[size_class], begin)

\* mutant of <IntrusiveClasses as FreeSlices>::alloc: the request is rounded
\* down to a class
IntrusiveClasses_alloc_contained(a, cap) ==
    alloc_size_class(a, size_class_contained(a.size_classes, cap))

\* mutant of <IntrusiveClasses as FreeSlices>::alloc: a failed call drops
\* the last head when it is empty
IntrusiveClasses_alloc_trim(a, cap) ==
    LET r == alloc_size_class(a, size_class_containing(a.size_classes, cap))
        n == Len(r.sl.free_heads)
    IN  IF ~r.panic /\ ~r.ret.some /\ n > 0 /\ r.sl.free_heads[n] = UsizeMax
        THEN SlResult([r.sl EXCEPT !.free_heads = SubSeq(r.sl.free_heads, 1, n - 1)],
                      None, FALSE)
        ELSE r

\* <IntrusiveClasses as FreeSlices>::alloc
IntrusiveClasses_alloc(a, cap) ==
    alloc_size_class(a, size_class_containing(a.size_classes, cap))

\* <IntrusiveClasses as FreeSlices>::clear
IntrusiveClasses_clear(a) == [a EXCEPT !.free_heads = <<>>]

\* IntrusiveClasses::default() over a backing of n cells holding key z
IntrusiveClasses_default(K, s, n, z) ==
    [K |-> K, size_classes |-> s, free_heads |-> <<>>, backing |-> [i \in 1..n |-> z]]

(* --------------- a slice allocator driven by a client ------------------ *)
(* sl    : the allocator and its backing                                    *)
(* own   : the client's side: `units` are the backing units it holds (all   *)
(*         of them at first, as the array of the test free_list_alloc),     *)
(*         `blocks` the ranges alloc returned that it still holds whole,    *)
(*         `calls` the number of calls it has made, `at17` and `at18` how   *)
(*         many calls of TestCalls and ScenarioCalls it has replayed so far *)
(*         (Off once it has made any other call)                            *)
(* The client makes up to MaxCalls calls of its choice, or replays the      *)
(* calls of the test free_list_alloc or of the scenario to their end.       *)
(* slast : the latest call: its name, argument and result, the free lists   *)
(*         just before it (`pre`), and whether it left the allocator as it  *)
(*         was (`kept`)                                                     *)

\* the length of the backing slice
BackingLen == 24
\* the most calls a client makes that replays neither test nor scenario
MaxCalls == 4

\* the ranges the client carves out of its own units and hands to dealloc
Donations ==
    {<<0, 4>>, <<0, 7>>, <<4, 8>>, <<7, 8>>, <<8, 12>>, <<12, 24>>, <<8, 24>>,
     <<9, 24>>}

\* the capacities the client asks for
Caps == {0, 2, 3, 4, 8, UsizeMax}

\* the allocators explored
SliceConfigs ==
    {c \in [K : {"u32", "usize"}, N : {1, 2}, B : {1, 2}, build : Builds] :
        c.N + c.B = 3}

\* the calls of the test free_list_alloc from its line 213 on
TestCalls ==
    << <<"dealloc", <<0, 7>>>>, <<"dealloc", <<8, 12>>>>, <<"dealloc", <<12, 24>>>>,
       <<"alloc", 2>>, <<"alloc", 2>>, <<"alloc", 3>>, <<"alloc", 8>>, <<"alloc", 3>>,
       <<"dealloc", <<12, 20>>>>, <<"alloc", 3>>, <<"alloc", 2>> >>

\* the calls of the scenario, in the order it lists them
ScenarioCalls ==
    << <<"dealloc", <<0, 7>>>>, <<"alloc", 2>>, <<"dealloc", <<8, 12>>>>,
       <<"dealloc", <<12, 24>>>>, <<"alloc", 2>>, <<"alloc", 2>>, <<"alloc", 3>> >>

\* the client is replaying neither
Off == 0 - 1

\* the call op(arg) is the next one of script after n replayed calls
Continues(script, n, op, arg) ==
    n # Off /\ n < Len(script) /\ script[n + 1] = <<op, arg>>

\* the replayed calls of script after the call op(arg)
Replay(script, n, op, arg) ==
    IF Continues(script, n, op, arg) THEN n + 1 ELSE Off

\* the client may make the call op(arg)
MayCall(o, op, arg) ==
    \/ o.calls < MaxCalls
    \/ Continues(TestCalls, o.at17, op, arg)
    \/ Continues(ScenarioCalls, o.at18, op, arg)

\* the client's record after the call op(arg)
Called(o, op, arg, units, blocks) ==
    [units  |-> units,
     blocks |-> blocks,
     calls  |-> IF o.calls < MaxCalls THEN o.calls + 1 ELSE o.calls,
     at17   |-> Replay(TestCalls, o.at17, op, arg),
     at18   |-> Replay(ScenarioCalls, o.at18, op, arg),
     redo   |-> IF op = "dealloc" /\ slast.op = "alloc" /\ slast.ret = Some(arg)
                THEN Some(<<slast.arg, arg>>)
                ELSE None]

\* the units of the range r = <<begin, end>>
Units(r) == r[1]..(r[2] - 1)

\* the begins of the free blocks of one class from position curr on
RECURSIVE ClassWalk(_, _, _)
ClassWalk(a, curr, fuel) ==
    IF fuel = 0 \/ curr >= Len(a.backing) THEN <<>>
    ELSE LET key == index(a.K, a.backing[curr + 1])
         IN  IF key = curr THEN <<curr>>
             ELSE <<curr>> \o ClassWalk(a, key, fuel - 1)

\* the free list of every class listed in free_heads, head first
ClassChains(a) ==
    [c \in 1..Len(a.free_heads) |-> ClassWalk(a, a.free_heads[c], Len(a.backing))]

\* the free blocks <<class, begin>> of the lists ch
BlocksOf(ch) ==
    UNION {{<<c, ch[c][i]>> : i \in 1..Len(ch[c])} : c \in DOMAIN ch}

\* the range of the block blk = <<class, begin>> under the size classes s
BlockRange(s, blk) == <<blk[2], blk[2] + capacity(s, blk[1]).v>>

\* the units of the free blocks of the lists ch
FreeUnits(s, ch) == UNION {Units(BlockRange(s, blk)) : blk \in BlocksOf(ch)}

\* the range of indices of a Slice of keys
RangeOf(K, slice) == <<index(K, slice[1]), index(K, slice[2])>>

\* Slice(K::new(begin), K::new(end)) of the range r
SliceOf(K, r) == Slice(try_new(K, r[1]).v, try_new(K, r[2]).v)

\* what the client can tell of allocator a just before a call
ObserveSlices(a, o) ==
    [chains |-> ClassChains(a), units |-> o.units, redo |-> o.redo]

\* the call op(arg) that returned r, made on allocator a by the client o
SliceCall(a, o, op, arg, r) ==
    [op    |-> op,
     arg   |-> arg,
     ret   |-> IF r.ret.some THEN Some(RangeOf(a.K, r.ret.v)) ELSE None,
     panic |-> r.panic,
     kept  |-> r.sl = a,
     pre   |-> ObserveSlices(a, o)]

InitSlices ==
    /\ sl \in {IntrusiveClasses_default(
                   c.K, [N |-> c.N, B |-> c.B, build |-> c.build], BackingLen, 0) :
               c \in SliceConfigs}
    /\ own = [units |-> 0..(BackingLen - 1), blocks |-> {}, calls |-> 0,
              at17 |-> 0, at18 |-> 0, redo |-> None]
    /\ slast = SliceCall(sl, own, "new", 0, SlResult(sl, None, FALSE))
    /\ cfg = << >>
    /\ sp = << >>
    /\ held = << >>
    /\ hist = << >>
    /\ last = << >>
    /\ kp = << >>
    /\ ip = << >>
    /\ elast = << >>

\* classes.alloc(cap, &mut backing)
Alloc(cap) ==
    /\ MayCall(own, "alloc", cap)
    /\ LET r == IntrusiveClasses_alloc(sl, cap)
       IN  /\ sl' = r.sl
           /\ slast' = SliceCall(sl, own, "alloc", cap, r)
           /\ own' = IF r.panic \/ ~r.ret.some
                     THEN Called(own, "alloc", cap, own.units, own.blocks)
                     ELSE Called(own, "alloc", cap,
                                 own.units \cup Units(RangeOf(sl.K, r.ret.v)),
                                 own.blocks \cup {RangeOf(sl.K, r.ret.v)})
    /\ UNCHANGED <<cfg, sp, held, hist, last, kp, ip, elast>>

\* classes.dealloc(Slice(b, e), &mut backing) of a range whose units the
\* client holds: one it carves out or one alloc returned
Dealloc(rg) ==
    /\ rg \in Donations \cup own.blocks
    /\ Units(rg) \subseteq own.units
    /\ MayCall(own, "dealloc", rg)
    /\ LET r == IntrusiveClasses_dealloc(sl, SliceOf(sl.K, rg))
       IN  /\ sl' = r.sl
           /\ slast' = SliceCall(sl, own, "dealloc", rg, r)
    /\ own' = Called(own, "dealloc", rg, own.units \ Units(rg),
                     {b \in own.blocks : Units(b) \cap Units(rg) = {}})
    /\ UNCHANGED <<cfg, sp, held, hist, last, kp, ip, elast>>

\* FreeSlices::clear(&mut classes, &mut backing)
ClearSlices ==
    /\ MayCall(own, "clear", 0)
    /\ sl' = IntrusiveClasses_clear(sl)
    /\ slast' = SliceCall(sl, own, "clear", 0,
                          SlResult(IntrusiveClasses_clear(sl), None, FALSE))
    /\ own' = Called(own, "clear", 0, own.units, own.blocks)
    /\ UNCHANGED <<cfg, sp, held, hist, last, kp, ip, elast>>

NextSlices ==
    \/ \E cap \in Caps : Alloc(cap)
    \/ \E b \in 0..BackingLen, e \in 0..BackingLen : Dealloc(<<b, e>>)
    \/ ClearSlices

SpecSlices == InitSlices /\ [][NextSlices]_vars

(* ------------------------ claims on the slices ------------------------- *)

\* the classes above c that have a free block in the lists ch
SplitSources(ch, c) == {d \in DOMAIN ch : d > c /\ ch[d] # <<>>}

\* the lists ch have no free block of class c
NoBlock(ch, c) == c \notin DOMAIN ch \/ ch[c] = <<>>

\* the least element of a non-empty set of numbers
Least(S) == CHOOSE x \in S : \A y \in S : x <= y

\* C12: when alloc(cap) targets a class c whose free list is empty and a
\* larger class has a free block, the nearest such class giving the block at
\* b, alloc returns [b, b + capacity(c)), and the whole remainder of that
\* block is back on the free lists: the free units afterwards are those before
\* less the units returned.
C12_SplitKeepsRemainder ==
    LET s  == sl.size_classes
        c  == size_class_containing(s, slast.arg)
        ch == slast.pre.chains
    IN  (/\ slast.op = "alloc"
         /\ c \in ClassesOf(s) \ {0}
         /\ NoBlock(ch, c)
         /\ SplitSources(ch, c) # {}) =>
            LET d == Least(SplitSources(ch, c))
                b == ch[d][1]
            IN  /\ ~slast.panic
                /\ slast.ret = Some(<<b, b + capacity(s, c).v>>)
                /\ FreeUnits(s, ClassChains(sl)) =
                      FreeUnits(s, ch) \ Units(slast.ret.v)
                /\ (b + capacity(s, c).v)..(b + capacity(s, d).v - 1)
                      \subseteq FreeUnits(s, ClassChains(sl))

\* C12 witness: an alloc has split a block two classes above the one asked for
C12_Witness ==
    LET s  == sl.size_classes
        c  == size_class_containing(s, slast.arg)
        ch == slast.pre.chains
    IN  /\ slast.op = "alloc"
        /\ slast.ret.some
        /\ c >= 1
        /\ NoBlock(ch, c)
        /\ SplitSources(ch, c) # {}
        /\ Least(SplitSources(ch, c)) = c + 2

\* the largest class of s whose capacity is at most len
LargestWithin(s, len) ==
    CHOOSE c \in ClassesOf(s) :
        /\ capacity(s, c).v <= len
        /\ \A d \in ClassesOf(s) : capacity(s, d).v <= len => d <= c

\* the blocks <<class, begin>> that tile [b, e) from b on, each of the largest
\* class that fits what is left
RECURSIVE Tiling(_, _, _)
Tiling(s, b, e) ==
    LET c == LargestWithin(s, e - b)
    IN  IF c = 0 THEN <<>>
        ELSE <<<<c, b>>>> \o Tiling(s, b + capacity(s, c).v, e)

\* the free list of class c in the lists ch
ChainOf(ch, c) == IF c \in DOMAIN ch THEN ch[c] ELSE <<>>

\* the begins of the blocks of class c in the tiling t, last first
RECURSIVE PushedOn(_, _)
PushedOn(t, c) ==
    IF t = <<>> THEN <<>>
    ELSE PushedOn(Tail(t), c) \o (IF Head(t)[1] = c THEN <<Head(t)[2]>> ELSE <<>>)

\* C13: dealloc of a range [b, e) of length at least capacity(1) pushes
\* consecutive free blocks from b on, each of the largest class contained in
\* the length still remaining, so block sizes do not increase, until what
\* remains is shorter than capacity(1); that tail is not pushed.
C13_DeallocTilesLargestFirst ==
    LET s  == sl.size_classes
        b  == slast.arg[1]
        e  == slast.arg[2]
        t  == Tiling(s, b, e)
        ch == ClassChains(sl)
    IN  (slast.op = "dealloc" /\ e - b >= capacity(s, 1).v) =>
            /\ ~slast.panic
            /\ t # <<>>
            /\ \A c \in 1..(WordBits + 1) :
                  ChainOf(ch, c) = PushedOn(t, c) \o ChainOf(slast.pre.chains, c)
            /\ \A i \in 1..(Len(t) - 1) :
                  /\ t[i + 1][1] <= t[i][1]
                  /\ t[i + 1][2] = BlockRange(s, t[i])[2]
            /\ t[1][2] = b
            /\ e - BlockRange(s, t[Len(t)])[2] \in 0..(capacity(s, 1).v - 1)

\* C13 witness: a dealloc has pushed blocks of two classes and left a tail
C13_Witness ==
    LET s == sl.size_classes
        t == Tiling(s, slast.arg[1], slast.arg[2])
    IN  /\ slast.op = "dealloc"
        /\ ~slast.panic
        /\ Len(t) >= 2
        /\ t[1][1] > t[Len(t)][1]
        /\ BlockRange(s, t[Len(t)])[2] < slast.arg[2]
        /\ <<t[1][1], t[1][2]>> \in BlocksOf(ClassChains(sl))

\* the units that are lost: neither held by the client o nor in a free block
\* of the lists ch
Lost(s, ch, o) == (0..(BackingLen - 1)) \ (o.units \cup FreeUnits(s, ch))

\* C14: dealloc of a range shorter than capacity(1) changes no free-list head
\* and no backing slot; its units, like the tail a longer dealloc leaves, are
\* lost: they stay lost through every later call and no later alloc returns a
\* range that contains one of them.
C14_SubGranularityLeak ==
    LET s    == sl.size_classes
        was  == Lost(s, slast.pre.chains, slast.pre)
        lost == Lost(s, ClassChains(sl), own)
    IN  /\ (slast.op = "dealloc" /\ slast.arg[2] - slast.arg[1] < capacity(s, 1).v)
              => /\ ~slast.panic
                 /\ slast.kept
                 /\ Units(slast.arg) \subseteq lost
        /\ (slast.op = "dealloc" /\ ~slast.panic) =>
              LET t == Tiling(s, slast.arg[1], slast.arg[2])
              IN  t # <<>> =>
                    (BlockRange(s, t[Len(t)])[2])..(slast.arg[2] - 1) \subseteq lost
        /\ was \subseteq lost
        /\ (slast.op = "alloc" /\ slast.ret.some) =>
              Units(slast.ret.v) \cap was = {}

\* C14 witness: an alloc has returned the block next to the tail a dealloc
\* lost, after a dealloc of a range shorter than capacity(1) had lost another
C14_Witness ==
    LET s   == sl.size_classes
        was == Lost(s, slast.pre.chains, slast.pre)
    IN  /\ slast.op = "alloc"
        /\ slast.ret.some
        /\ slast.ret.v[2] \in was
        /\ Cardinality(was) > capacity(s, 1).v

\* no class of s: the answer u32::MAX of the trait for a capacity above every
\* class, as a number above every class of the model
NoClass == WordBits + 2

\* the smallest class of s whose capacity is at least cap
SmallestHolding(s, cap) ==
    LET fit == {c \in ClassesOf(s) : capacity(s, c).v >= cap}
    IN  IF fit = {} THEN NoClass ELSE Least(fit)

\* C15: no call merges free blocks: a dealloc adds the blocks of its own
\* tiling and leaves every other free block in its class, and an alloc adds
\* only pieces of one free block; so an alloc for class c that succeeds
\* returns a range inside a single block of a class >= c that was free (with
\* Exp2Size<1,2>, after dealloc [0,4) and dealloc [4,8), alloc(8) is None).
C15_NoCoalescing ==
    LET s   == sl.size_classes
        was == BlocksOf(slast.pre.chains)
        now == BlocksOf(ClassChains(sl))
    IN  /\ (slast.op = "dealloc" /\ ~slast.panic) =>
              LET t == Tiling(s, slast.arg[1], slast.arg[2])
              IN  now = was \cup {t[i] : i \in 1..Len(t)}
        /\ slast.op = "alloc" =>
              \A blk \in now \ was :
                 \E src \in was \ now :
                    /\ src[1] > blk[1]
                    /\ Units(BlockRange(s, blk)) \subseteq Units(BlockRange(s, src))
        /\ (slast.op = "alloc" /\ slast.ret.some) =>
              \E src \in was \ now :
                 /\ src[1] >= SmallestHolding(s, slast.arg)
                 /\ Units(slast.ret.v) \subseteq Units(BlockRange(s, src))
                 /\ was \ now = {src}

\* C15 witness: Exp2Size<1,2>, the free blocks are [0,4) and [4,8), and
\* alloc(8) has returned None
C15_Witness ==
    /\ sl.size_classes.N = 1
    /\ sl.size_classes.B = 2
    /\ slast.op = "alloc"
    /\ slast.arg = 8
    /\ ~slast.panic
    /\ slast.ret = None
    /\ BlocksOf(slast.pre.chains) = {<<1, 0>>, <<1, 4>>}

\* the lists ch have a free block of a class that alloc(cap) can take: the
\* containing class of cap, or a class above it, from which it splits
Servable(s, ch, cap) ==
    \E blk \in BlocksOf(ch) : blk[1] >= SmallestHolding(s, cap)

\* C16: an alloc(cap) with cap >= 1 returns, and returns None exactly when
\* neither the containing class of cap nor a class above it has a free block;
\* alloc(0) returns None; every alloc on empty free lists returns None.
C16_AllocFailure ==
    LET s  == sl.size_classes
        ch == slast.pre.chains
    IN  slast.op = "alloc" =>
            /\ ~slast.panic
            /\ slast.arg >= 1 => (slast.ret = None <=> ~Servable(s, ch, slast.arg))
            /\ slast.arg = 0 => slast.ret = None
            /\ BlocksOf(ch) = {} => slast.ret = None

\* the allocator is an IntrusiveClasses<Exp2Size<1, 2>>
IsExp2Size12 == sl.size_classes.N = 1 /\ sl.size_classes.B = 2

\* what the calls of TestCalls return, in the test free_list_alloc (a dealloc
\* returns nothing)
TestReturns ==
    << None, None, None,
       Some(<<20, 24>>), Some(<<8, 12>>), Some(<<0, 4>>), Some(<<12, 20>>), None,
       None, Some(<<12, 16>>), Some(<<16, 20>>) >>

\* C17: on an Exp2Size<1,2> allocator with empty free lists, after dealloc
\* [0,7), [8,12), [12,24) the calls alloc(2), alloc(2), alloc(3), alloc(8),
\* alloc(3) return [20,24), [8,12), [0,4), [12,20), None; after dealloc
\* [12,20), alloc(3) returns [12,16) and alloc(2) returns [16,20); no call of
\* the trace returns one of the units 4..7.
C17_TestTrace ==
    (IsExp2Size12 /\ own.at17 \in 1..Len(TestCalls)) =>
        /\ ~slast.panic
        /\ slast.ret = TestReturns[own.at17]
        /\ slast.ret.some => Units(slast.ret.v) \cap (4..7) = {}

\* C17 witness: the whole trace of the test has run
C17_Witness ==
    /\ IsExp2Size12
    /\ own.at17 = Len(TestCalls)
    /\ slast.ret = Some(<<16, 20>>)

\* what the calls of ScenarioCalls return: [0,4) is still allocated at the
\* last alloc(3), which splits the class-2 block [12,20)
ScenarioReturns ==
    << None, Some(<<0, 4>>), None, None,
       Some(<<20, 24>>), Some(<<8, 12>>), Some(<<12, 16>>) >>

\* C18, as stated: on an Exp2Size<1,2> allocator with empty free lists, the
\* sequence dealloc [0,7), alloc(2), dealloc [8,12), dealloc [12,24), alloc(2),
\* alloc(2), alloc(3) returns [0,4), then [20,24), [8,12), and [0,4) again.
C18_ScenarioAsStated ==
    LET stated == << None, Some(<<0, 4>>), None, None,
                     Some(<<20, 24>>), Some(<<8, 12>>), Some(<<0, 4>>) >>
    IN  (IsExp2Size12 /\ own.at18 \in 1..Len(ScenarioCalls)) =>
            /\ ~slast.panic
            /\ slast.ret = stated[own.at18]

\* C18, amended: the same sequence returns [0,4), then [20,24), [8,12), and
\* the last alloc(3) returns [12,16).
C18_ScenarioTrace ==
    (IsExp2Size12 /\ own.at18 \in 1..Len(ScenarioCalls)) =>
        /\ ~slast.panic
        /\ slast.ret = ScenarioReturns[own.at18]

\* C18 witness: the whole scenario has run, [0,4) still held by the client
C18_Witness ==
    /\ IsExp2Size12
    /\ own.at18 = Len(ScenarioCalls)
    /\ slast.op = "alloc"
    /\ slast.arg = 3
    /\ <<0, 4>> \in own.blocks

\* C19, as stated: on an allocator with empty free lists alloc(cap) succeeds;
\* after the dealloc of the range it returned, alloc(cap) succeeds again with
\* a range of length >= cap.
C19_ReallocOnEmptyAsStated ==
    /\ (slast.op = "alloc" /\ slast.arg >= 1 /\ BlocksOf(slast.pre.chains) = {})
          => slast.ret.some
    /\ (slast.op = "alloc" /\ slast.pre.redo.some
          /\ slast.arg = slast.pre.redo.v[1]) =>
              /\ slast.ret.some
              /\ slast.ret.v[2] - slast.ret.v[1] >= slast.arg

\* C19, amended: an alloc on empty free lists does not succeed; when
\* alloc(cap) has returned a range and the next call deallocs that range, the
\* alloc(cap) right after returns the same range, of length >= cap.
C19_ReallocAfterFree ==
    /\ (slast.op = "alloc" /\ BlocksOf(slast.pre.chains) = {})
          => ~slast.ret.some
    /\ (slast.op = "alloc" /\ slast.pre.redo.some
          /\ slast.arg = slast.pre.redo.v[1]) =>
              /\ ~slast.panic
              /\ slast.ret = Some(slast.pre.redo.v[2])
              /\ slast.ret.v[2] - slast.ret.v[1] >= slast.arg

\* C19 witness: alloc(cap), dealloc of its range and alloc(cap) have run in a
\* row, the range longer than cap and the only free block when it was returned
\* again
C19_Witness ==
    /\ slast.op = "alloc"
    /\ slast.pre.redo.some
    /\ slast.arg = slast.pre.redo.v[1]
    /\ slast.ret.some
    /\ slast.ret.v[2] - slast.ret.v[1] > slast.arg
    /\ Cardinality(BlocksOf(slast.pre.chains)) = 1

(* ------------------ size-class rounding and capacities ------------------ *)

\* C21: round_up_capacity and round_down_capacity return a class capacity
\* unchanged, and for every x of the machine word round_up_capacity(x) >= x
\* and round_down_capacity(x) <= x.
C21_Rounding ==
    slast.op = "classify" =>
        LET s == sl.size_classes
        IN  /\ ~slast.round_up.panic
            /\ ~slast.round_down.panic
            /\ slast.round_up.v >= slast.cap
            /\ slast.round_down.v <= slast.cap
            /\ \A c \in ClassesOf(s) :
                  slast.cap = capacity(s, c).v =>
                     /\ slast.round_up.v = slast.cap
                     /\ slast.round_down.v = slast.cap

\* C22: size_class_containing(cap) is u32::MAX, no class, when cap is above
\* the capacity of every class, and 0 for cap = 0.
C22_NoContainingClass ==
    slast.op = "classify" =>
        /\ slast.cap = 0 => slast.containing = 0
        /\ SmallestHolding(sl.size_classes, slast.cap) = NoClass
              => slast.containing = NoClass

IxNarrowBits == 2

\* the widths of the provided types: narrower than the word (u8..u32), the
\* word itself (usize, u64) and wider than the word (u128)
IxWidths == {IxNarrowBits, WordBits, 2 * WordBits}

\* u8 .. u128, usize, i8 .. i128, isize, Neg<i8> .. Neg<i128>, Neg<isize>
IxTypes == {t \in [neg : BOOLEAN, signed : BOOLEAN, bits : IxWidths] :
               t.neg => t.signed}

\* <$ty>::MAX
TyMax(t) == IF t.signed THEN Pow2(t.bits - 1) - 1 ELSE Pow2(t.bits) - 1

\* `x as $ty`: truncation to the bits of the type, then its sign
AsType(t, x) ==
    LET r == x % Pow2(t.bits)
    IN  IF t.signed /\ r > TyMax(t) THEN r - Pow2(t.bits) ELSE r

\* isize::MAX and isize::MIN
IsizeMax == Pow2(WordBits - 1) - 1

IsizeMin == 0 - Pow2(WordBits - 1)

\* an isize operation whose exact result is x: out of the range of isize it
\* panics in the debug build and wraps in the release build
IsizeOp(build, x) ==
    IF x >= IsizeMin /\ x <= IsizeMax THEN Val(x)
    ELSE IF build = "debug" THEN Panic
    ELSE Val(AsIsize(x))

\* const MAX_INDEX: usize = <$ty>::MAX as usize
Ix_MAX_INDEX(t) == AsUsize(TyMax(t))

\* (-(ix as isize) - 1) as $ty
Ix_neg_repr(t, build, ix) ==
    LET n == IsizeOp(build, 0 - AsIsize(ix))
        m == IF n.panic THEN Panic ELSE IsizeOp(build, n.v - 1)
    IN  IF m.panic THEN Panic ELSE Val(AsType(t, m.v))

\* ContiguousIx::new_unchecked of the provided types
Ix_new_unchecked(t, build, ix) ==
    IF t.neg THEN Ix_neg_repr(t, build, ix) ELSE Val(AsType(t, ix))

\* ContiguousIx::try_new of the provided types: the Option, or a panic
Ix_try_new(t, build, ix) ==
    IF ix > Ix_MAX_INDEX(t) THEN Val(None)
    ELSE LET r == Ix_new_unchecked(t, build, ix)
         IN  IF r.panic THEN Panic ELSE Val(Some(r.v))

\* ContiguousIx::new of the provided types
Ix_new(t, build, ix) ==
    IF ix > Ix_MAX_INDEX(t) THEN Panic
    ELSE Ix_new_unchecked(t, build, ix)

\* ContiguousIx::index of the provided types
Ix_index(t, build, k) ==
    IF t.neg
    THEN LET a == IsizeOp(build, AsIsize(k) + 1)
             n == IF a.panic THEN Panic ELSE IsizeOp(build, 0 - a.v)
         IN  IF n.panic THEN Panic ELSE Val(AsUsize(n.v))
    ELSE Val(AsUsize(k))

\* ContiguousIx::is_zero of the provided types
Ix_is_zero(t, k) == IF t.neg THEN k = 0 - 1 ELSE k = 0

\* `<` of the type: that of the integer, reversed for Neg
Ix_lt(t, j, k) == IF t.neg THEN j > k ELSE j < k

\* `==` of the type (derived for Neg)
Ix_eq(t, j, k) == j = k

\* r.index() for the result r of a constructor
IndexOf(t, build, r) == IF r.panic THEN Panic ELSE Ix_index(t, build, r.v)

\* the inputs: a type, a build and two usize values
InitIx ==
    /\ sl \in [ty : IxTypes, build : Builds, a : 0..UsizeMax, b : 0..UsizeMax]
    /\ slast = [op |-> "new"]
    /\ own = << >>
    /\ cfg = << >>
    /\ sp = << >>
    /\ held = << >>
    /\ hist = << >>
    /\ last = << >>
    /\ kp = << >>
    /\ ip = << >>
    /\ elast = << >>

\* the constructors on n = sl.a and index / is_zero on what they return, as
\* in the tests u8_contiguous_ix and i8_continuous_ix
IxConstruct ==
    /\ slast.op = "new"
    /\ sl.b = 0
    /\ LET t  == sl.ty
           tn == Ix_try_new(t, sl.build, sl.a)
           nw == Ix_new(t, sl.build, sl.a)
           nu == Ix_new_unchecked(t, sl.build, sl.a)
       IN  slast' = [op            |-> "construct",
                     n             |-> sl.a,
                     try_new       |-> tn,
                     new           |-> nw,
                     new_unchecked |-> nu,
                     new_index     |-> IndexOf(t, sl.build, nw),
                     unchecked_index |-> IndexOf(t, sl.build, nu),
                     new_is_zero   |-> IF nw.panic THEN Panic
                                       ELSE Val(Ix_is_zero(t, nw.v))]
    /\ UNCHANGED <<cfg, sp, held, hist, last, kp, ip, elast, sl, own>>

\* new(a) compared with new(b)
IxCompare ==
    /\ slast.op = "new"
    /\ LET t == sl.ty
           x == Ix_new(t, sl.build, sl.a)
           y == Ix_new(t, sl.build, sl.b)
       IN  slast' = [op    |-> "compare",
                     panic |-> x.panic \/ y.panic,
                     lt    |-> Ix_lt(t, x.v, y.v),
                     eq    |-> Ix_eq(t, x.v, y.v)]
    /\ UNCHANGED <<cfg, sp, held, hist, last, kp, ip, elast, sl, own>>

NextIx == IxConstruct \/ IxCompare

SpecIx == InitIx /\ [][NextIx]_vars

\* C24: for every provided index type, try_new(n) returns None if and only if
\* n > MAX_INDEX, new(n) panics in exactly those cases, and otherwise new(n)
\* is the value inside try_new(n).
C24_TryNewBound ==
    slast.op = "construct" =>
        LET over == slast.n > Ix_MAX_INDEX(sl.ty)
        IN  /\ ~slast.try_new.panic
            /\ slast.try_new.v = None <=> over
            /\ slast.new.panic <=> over
            /\ ~over => slast.try_new.v = Some(slast.new.v)

\* C25: for every provided index type and every n in 0..=MAX_INDEX,
\* try_new(n) = Some(i) with i.index() = n, and i.is_zero() holds iff n = 0;
\* for Neg the stored representation of index n is -(n + 1), so that is_zero
\* is representation -1.
C25_RoundTrip ==
    (slast.op = "construct" /\ slast.n <= Ix_MAX_INDEX(sl.ty)) =>
        /\ ~slast.try_new.panic
        /\ slast.try_new.v.some
        /\ slast.try_new.v = Some(slast.new.v)
        /\ slast.new_index = Val(slast.n)
        /\ slast.new_is_zero = Val(slast.n = 0)
        /\ sl.ty.neg => slast.new.v = 0 - (slast.n + 1)

\* C26: for every provided index type and every n of the machine word,
\* new_unchecked(n) does not panic and yields a value whose index() is at most
\* MAX_INDEX; for n <= MAX_INDEX it equals new(n).
C26_NewUncheckedInRange ==
    slast.op = "construct" =>
        /\ ~slast.new_unchecked.panic
        /\ ~slast.unchecked_index.panic
        /\ slast.unchecked_index.v <= Ix_MAX_INDEX(sl.ty)
        /\ slast.n <= Ix_MAX_INDEX(sl.ty) => slast.new_unchecked = slast.new

\* C27: for every provided index type and all a, b in 0..=MAX_INDEX,
\* new(a) < new(b) iff a < b, and new(a) == new(b) iff a = b.
C27_OrderAgrees ==
    (/\ slast.op = "compare"
     /\ sl.a <= Ix_MAX_INDEX(sl.ty)
     /\ sl.b <= Ix_MAX_INDEX(sl.ty)) =>
        /\ ~slast.panic
        /\ slast.lt <=> sl.a < sl.b
        /\ slast.eq <=> sl.a = sl.b

(* ----------------------- reads of freed positions ----------------------- *)

\* <Either as CheckedSlot>::has_value
has_value(s) == s.t = "Right"

\* <Either as CheckedSlot>::has_key
has_key(s) == s.t = "Left"

\* SlotMut::try_value_mut
try_value_mut(s) ==
    IF s.t = "Left" THEN None ELSE Some(s.x)

\* <SlabPool as GetMut>::try_at_mut
try_at_mut(c, p, key) ==
    LET ix == index(c.K, key)
    IN  IF InBacking(p.pool, ix) THEN try_value_mut(p.pool[ix + 1]) ELSE None

\* the keys the client gave up by remove / delete that no insert has handed
\* out again
Freed == {hist.freed[i] : i \in 1..Len(hist.freed)}

\* C28: in a pool of Either<K, V> slots, for every key removed or deleted
\* while live and not handed out again, try_at and try_at_mut return None and
\* the slot has_key and not has_value; no slot of the pool reports both a key
\* and a value, or neither.
C28_TaggedAccessAfterFree ==
    cfg.S = "Either" =>
        /\ \A k \in Freed :
              /\ InBacking(sp.pool, index(cfg.K, k))
              /\ try_at(cfg, sp, k) = None
              /\ try_at_mut(cfg, sp, k) = None
              /\ has_key(sp.pool[index(cfg.K, k) + 1])
              /\ ~has_value(sp.pool[index(cfg.K, k) + 1])
        /\ \A i \in 1..Len(sp.pool) : has_key(sp.pool[i]) # has_value(sp.pool[i])

\* C28 witness: two keys of an Either pool are freed, the latest by delete,
\* while another key is live
C28_Witness ==
    /\ cfg.S = "Either"
    /\ Len(hist.freed) = 2
    /\ last.op = "delete"
    /\ last.pre.due.some
    /\ Live # {}

\* C29, as stated: in a pool of DefaultSlot<T> slots, under either free list,
\* reading the position of a key that was removed or deleted and not handed
\* out again yields T::default().
C29_DefaultAfterRemoveAsStated ==
    cfg.S = "DefaultSlot" =>
        \A k \in Freed : at(cfg, sp, k).ret = Some(DefaultValue)

\* C29, amended: under KeyList the position reads T::default(); under
\* IntrusiveFree it reads the link of the free list: the key of the next free
\* position, or at the end of the list the key itself or one beyond the pool.
C29_DefaultAfterRemove ==
    cfg.S = "DefaultSlot" =>
        LET chain == FreeChain(cfg, sp)
        IN  /\ Freed = {try_new(cfg.K, chain[i]).v : i \in 1..Len(chain)}
            /\ \A i \in 1..Len(chain) :
                  LET r   == at(cfg, sp, try_new(cfg.K, chain[i]).v)
                      nxt == index(cfg.K, r.ret.v)
                  IN  /\ ~r.panic
                      /\ r.ret.some
                      /\ cfg.fl = "KeyList" => r.ret.v = DefaultValue
                      /\ cfg.fl = "IntrusiveFree" =>
                            IF i < Len(chain) THEN nxt = chain[i + 1]
                            ELSE nxt = chain[i] \/ nxt >= Len(sp.pool)

\* C29 witness: a KeyList pool of DefaultSlot slots where a key that held a
\* value other than the default has just been removed
C29_Witness ==
    /\ cfg.S = "DefaultSlot"
    /\ cfg.fl = "KeyList"
    /\ last.op \in {"take", "try_take"}
    /\ ~last.panic
    /\ last.ret = Some(DefaultValue + 1)
    /\ last.key \in Freed

(* ------------------- a pool of stacks driven by a client ---------------- *)
(* cfg  : the pool's type parameters; the values are Vec<u32>               *)
(* sp   : the SlabPool, each value a sequence, the top of the stack last    *)
(* held : the client's keys, each with the items the client pushed under it *)
(*        and has not popped                                                *)
(* last : the latest call, what it returned, and what key_len and           *)
(*        key_is_empty answer for its key right after it                    *)

\* the most stacks the pool holds and the most items the client has on one
MaxStacks == 2

MaxDepth == 2

\* the first item the client pushes on a stack (the test pushes 5, then 6)
FirstItem == 5

\* the item the client pushes on a stack that holds the items of stack
NextItem(stack) == FirstItem + Len(stack)

\* SlabPool<S, K, F> with S::Value = Vec<u32>: KeyList needs RemoveSlot,
\* IntrusiveFree needs KeySlot<K>, which of these slots only Either has
StackConfigs ==
    {c \in [fl : FreeLists, S : {"Either", "DefaultSlot<Vec>", "CloneSlot"},
            K : KeyTypes] :
        (c.fl = "KeyList") = (c.S # "Either")}

\* mutant of try_insert_empty: a slot taken from the free list is handed out
\* as it is
try_insert_empty_stale(c, p) ==
    LET a == FreeList_alloc(c, p.free_list, p.pool)
    IN  IF a.panic THEN PoolResult(p, None, TRUE)
        ELSE IF a.ret.some
        THEN PoolResult(SlabPool(a.backing, a.fl), Ok(a.ret.v), FALSE)
        ELSE LET ix == try_new(c.K, Len(p.pool))
             IN  IF ix.some
                 THEN PoolResult(SlabPool(Append(a.backing, from_value(c.S, <<>>)), a.fl),
                                 Ok(ix.v), FALSE)
                 ELSE PoolResult(SlabPool(a.backing, a.fl), Err(<<>>), FALSE)

\* <SlabPool as InsertEmpty>::try_insert_empty
try_insert_empty(c, p) ==
    LET a == FreeList_alloc(c, p.free_list, p.pool)
    IN  IF a.panic THEN PoolResult(p, None, TRUE)
        ELSE IF a.ret.some
        THEN LET ix == index(c.K, a.ret.v)
             IN  IF ~InBacking(a.backing, ix)
                 THEN PoolResult(SlabPool(a.backing, a.fl), None, TRUE)
                 ELSE PoolResult(
                        SlabPool([a.backing EXCEPT ![ix + 1] = set_value(@, <<>>)], a.fl),
                        Ok(a.ret.v), FALSE)
        ELSE LET ix == try_new(c.K, Len(p.pool))
             IN  IF ix.some
                 THEN PoolResult(SlabPool(Append(a.backing, from_value(c.S, <<>>)), a.fl),
                                 Ok(ix.v), FALSE)
                 ELSE PoolResult(SlabPool(a.backing, a.fl), Err(<<>>), FALSE)

\* <Vec as StackLike>::try_push_stack: the stack after the push
try_push_stack(stack, item) == Append(stack, item)

\* <Vec as StackLike>::pop_stack: the stack after the pop and what it returns
pop_stack(stack) ==
    IF stack = <<>> THEN [stack |-> stack, ret |-> None]
    ELSE [stack |-> SubSeq(stack, 1, Len(stack) - 1),
          ret   |-> Some(stack[Len(stack)])]

\* StackPool::try_push: self.at_mut(key).try_push_stack(item)
try_push(c, p, key, item) ==
    LET cur == at(c, p, key)
    IN  IF cur.panic THEN PoolResult(p, None, TRUE)
        ELSE PoolResult(at_mut(c, p, key, try_push_stack(cur.ret.v, item)).sp,
                        Ok(<<>>), FALSE)

\* StackPool::try_into_pushed: the key is returned unchanged
try_into_pushed(c, p, key, item) ==
    LET r == try_push(c, p, key, item)
    IN  IF r.panic THEN r ELSE PoolResult(r.sp, Ok(key), FALSE)

\* StackPool::try_pop: Ok(self.at_mut(key).pop_stack())
try_pop(c, p, key) ==
    LET cur == at(c, p, key)
    IN  IF cur.panic THEN PoolResult(p, None, TRUE)
        ELSE LET popped == pop_stack(cur.ret.v)
             IN  PoolResult(at_mut(c, p, key, popped.stack).sp, Ok(popped.ret), FALSE)

\* StackPool::try_into_popped: the popped item with the key, unchanged
try_into_popped(c, p, key) ==
    LET r == try_pop(c, p, key)
    IN  IF r.panic \/ ~r.ret.v.some THEN r
        ELSE PoolResult(r.sp, Ok(Some(<<key, r.ret.v.v>>)), FALSE)

\* LenPool::key_len: the length of the container under key
key_len(c, p, key) ==
    LET r == at(c, p, key)
    IN  IF r.panic THEN Panic ELSE Val(Len(r.ret.v))

\* IsEmptyPool::key_is_empty: whether the container under key is empty
key_is_empty(c, p, key) ==
    LET r == at(c, p, key)
    IN  IF r.panic THEN Panic ELSE Val(r.ret.v = <<>>)

\* whether pools p and q hold the same slots and free list (a slot's tag is
\* compared before its content: a key and a container are never compared)
SamePool(p, q) ==
    /\ Len(p.pool) = Len(q.pool)
    /\ \A i \in 1..Len(p.pool) :
          p.pool[i].t = q.pool[i].t /\ p.pool[i].x = q.pool[i].x
    /\ p.free_list = q.free_list

\* the call op(key, item) on pool p that returned r, by a client that had
\* the items was under key; now is the key the stack has after the call
StackCall(c, p, op, key, item, was, r, now) ==
    [op    |-> op,
     key   |-> key,
     item  |-> item,
     was   |-> was,
     ret   |-> r.ret,
     panic |-> r.panic,
     kept  |-> SamePool(r.sp, p),
     now   |-> now,
     len   |-> IF now.some THEN key_len(c, r.sp, now.v) ELSE Panic,
     empty |-> IF now.some THEN key_is_empty(c, r.sp, now.v) ELSE Panic]

InitStack ==
    /\ cfg \in StackConfigs
    /\ sp = new(cfg)
    /\ held = << >>
    /\ last = [op |-> "new"]
    /\ hist = << >>
    /\ kp = << >>
    /\ ip = << >>
    /\ elast = << >>
    /\ sl = << >>
    /\ own = << >>
    /\ slast = << >>

\* pool.try_insert_empty() (insert_empty unwraps it)
InsertEmpty ==
    /\ \/ FreeList_alloc(cfg, sp.free_list, sp.pool).ret.some
       \/ ~try_new(cfg.K, Len(sp.pool)).some
       \/ Len(sp.pool) < MaxStacks
    /\ LET r  == try_insert_empty(cfg, sp)
           ok == ~r.panic /\ r.ret.ok
       IN  /\ sp' = r.sp
           /\ held' = IF ok THEN Bind(held, r.ret.v, <<>>) ELSE held
           /\ last' = StackCall(cfg, sp, "insert_empty", 0, 0, <<>>, r,
                                IF ok THEN Some(r.ret.v) ELSE None)
    /\ UNCHANGED <<cfg, hist, kp, ip, elast, sl, own, slast>>

\* pool.push(k, item) on a key the client holds
Push(k) ==
    /\ k \in Live
    /\ Len(held[k]) < MaxDepth
    /\ LET item == NextItem(held[k])
           r    == try_push(cfg, sp, k, item)
       IN  /\ sp' = r.sp
           /\ last' = StackCall(cfg, sp, "push", k, item, held[k], r, Some(k))
           /\ held' = Bind(held, k, Append(held[k], item))
    /\ UNCHANGED <<cfg, hist, kp, ip, elast, sl, own, slast>>

\* k2 = pool.into_pushed(k, item): the client goes on with the key returned
IntoPushed(k) ==
    /\ k \in Live
    /\ Len(held[k]) < MaxDepth
    /\ LET item == NextItem(held[k])
           r    == try_into_pushed(cfg, sp, k, item)
           k2   == IF r.panic THEN k ELSE r.ret.v
       IN  /\ sp' = r.sp
           /\ last' = StackCall(cfg, sp, "into_pushed", k, item, held[k], r, Some(k2))
           /\ held' = Bind(Unbind(held, k), k2, Append(held[k], item))
    /\ UNCHANGED <<cfg, hist, kp, ip, elast, sl, own, slast>>

\* pool.pop(k) on a key the client holds
Pop(k) ==
    /\ k \in Live
    /\ LET r == try_pop(cfg, sp, k)
       IN  /\ sp' = r.sp
           /\ last' = StackCall(cfg, sp, "pop", k, 0, held[k], r, Some(k))
    /\ held' = Bind(held, k, SubSeq(held[k], 1, Len(held[k]) - 1))
    /\ UNCHANGED <<cfg, hist, kp, ip, elast, sl, own, slast>>

\* pool.into_popped(k): the client goes on with the key returned, if any
IntoPopped(k) ==
    /\ k \in Live
    /\ LET r  == try_into_popped(cfg, sp, k)
           k2 == IF r.panic \/ ~r.ret.v.some THEN k ELSE r.ret.v.v[1]
       IN  /\ sp' = r.sp
           /\ last' = StackCall(cfg, sp, "into_popped", k, 0, held[k], r, Some(k2))
           /\ held' = Bind(Unbind(held, k), k2, SubSeq(held[k], 1, Len(held[k]) - 1))
    /\ UNCHANGED <<cfg, hist, kp, ip, elast, sl, own, slast>>

\* pool.delete(k) of a stack the client holds
DeleteStack(k) ==
    /\ k \in Live
    /\ LET r == delete(cfg, sp, k)
       IN  /\ sp' = r.sp
           /\ last' = StackCall(cfg, sp, "delete", k, 0, held[k], r, None)
    /\ held' = Unbind(held, k)
    /\ UNCHANGED <<cfg, hist, kp, ip, elast, sl, own, slast>>

NextStack ==
    \/ InsertEmpty
    \/ \E k \in KeyReps : Push(k)
    \/ \E k \in KeyReps : IntoPushed(k)
    \/ \E k \in KeyReps : Pop(k)
    \/ \E k \in KeyReps : IntoPopped(k)
    \/ \E k \in KeyReps : DeleteStack(k)

SpecStack == InitStack /\ [][NextStack]_vars

\* C30: a container just inserted empty reports length 0 and empty; every
\* container holds the items pushed under its key and not popped, so pops
\* return the pushed items in reverse order, after as many pops as pushes the
\* container reports length 0 and empty again, and no call changes a
\* container under another key; a pop of an empty container returns None and
\* leaves the pool as it was.
C30_StackEmptiness ==
    /\ (last.op = "insert_empty" /\ last.now.some) =>
          last.len = Val(0) /\ last.empty = Val(TRUE)
    /\ \A k \in Live :
          /\ ~at(cfg, sp, k).panic
          /\ at(cfg, sp, k).ret.v = held[k]
          /\ key_len(cfg, sp, k) = Val(Len(held[k]))
          /\ key_is_empty(cfg, sp, k) = Val(held[k] = <<>>)
    /\ last.op \in {"push", "into_pushed", "pop", "into_popped"} =>
          /\ ~last.panic
          /\ last.now.v \in Live
          /\ last.len = Val(Len(held[last.now.v]))
          /\ last.empty = Val(held[last.now.v] = <<>>)
    /\ last.op \in {"pop", "into_popped"} =>
          /\ last.ret.ok
          /\ last.ret.v.some = (last.was # <<>>)
          /\ last.ret.v.some =>
                last.ret.v.v = IF last.op = "pop" THEN last.was[Len(last.was)]
                               ELSE <<last.now.v, last.was[Len(last.was)]>>
    /\ (last.op \in {"pop", "into_popped"} /\ last.was = <<>>) => last.kept

\* C30 witness: a pop has emptied a container while the container under
\* another key holds as many items as the client pushes
C30_Witness ==
    /\ last.op \in {"pop", "into_popped"}
    /\ Len(last.was) = 1
    /\ last.len = Val(0)
    /\ last.empty = Val(TRUE)
    /\ \E k \in Live : k # last.now.v /\ Len(held[k]) = MaxDepth

(* --------------------- growth and the free count ------------------------ *)

\* C31 as stated: try_insert appends a new slot (total_slots increases by
\* exactly 1, new key = old total_slots) if and only if the free list is empty
\* at the call; when the free list is non-empty it reuses a free position and
\* total_slots is unchanged; remove and delete never change total_slots.
C31_GrowthIffNothingFreeAsStated ==
    /\ last.op = "try_insert" =>
          /\ (/\ total_slots(sp) = last.pre.total_slots + 1
              /\ last.ret.ok
              /\ index(cfg.K, last.ret.v) = last.pre.total_slots)
               <=> last.pre.free_slots = 0
          /\ last.pre.free_slots # 0 =>
               /\ total_slots(sp) = last.pre.total_slots
               /\ last.ret.ok
               /\ last.pre.state[index(cfg.K, last.ret.v)] = "Free"
    /\ last.op \in RemoveOps => total_slots(sp) = last.pre.total_slots

\* C31 amended: try_insert appends a new slot (total_slots increases by
\* exactly 1, new key = old total_slots) if and only if the free list is empty
\* at the call and total_slots is at most MAX_INDEX; with the free list empty
\* and total_slots = MAX_INDEX + 1 it fails and total_slots is unchanged; when
\* the free list is non-empty it reuses a free position and total_slots is
\* unchanged; remove and delete never change total_slots.
C31_GrowthIffNothingFree ==
    /\ last.op = "try_insert" =>
          /\ ~last.panic
          /\ (/\ total_slots(sp) = last.pre.total_slots + 1
              /\ last.ret.ok
              /\ index(cfg.K, last.ret.v) = last.pre.total_slots)
               <=> (/\ last.pre.free_slots = 0
                    /\ last.pre.total_slots <= MAX_INDEX(cfg.K))
          /\ (last.pre.free_slots = 0 /\ last.pre.total_slots > MAX_INDEX(cfg.K)) =>
               /\ ~last.ret.ok
               /\ total_slots(sp) = last.pre.total_slots
          /\ last.pre.free_slots # 0 =>
               /\ total_slots(sp) = last.pre.total_slots
               /\ last.ret.ok
               /\ last.pre.state[index(cfg.K, last.ret.v)] = "Free"
    /\ last.op \in RemoveOps => total_slots(sp) = last.pre.total_slots

\* C31 witness: a try_insert has reused a free position of a pool that still
\* could grow, and the pool has not grown
C31_Witness ==
    /\ last.op = "try_insert" /\ last.ret.ok
    /\ last.pre.free_slots # 0
    /\ last.pre.total_slots <= MAX_INDEX(cfg.K)
    /\ total_slots(sp) = last.pre.total_slots
    /\ Live # {}

\* C32: in every state reached by inserts and removes/deletes of live keys,
\* for both free lists and every key type, free_slots() equals total_slots()
\* minus the number of live keys: each remove/delete of a live key raises it
\* by exactly 1, each insert that reuses a position lowers it by exactly 1,
\* and it is 0 on a pool that has never had a removal.
C32_FreeSlotsCount ==
    /\ free_slots(cfg, sp) = total_slots(sp) - Cardinality(Live)
    /\ last.op \in RemoveOps => free_slots(cfg, sp) = last.pre.free_slots + 1
    /\ (/\ last.op \in InsertOps /\ ~last.panic /\ last.ret.ok
        /\ last.pre.state[index(cfg.K, last.ret.v)] = "Free")
          => free_slots(cfg, sp) = last.pre.free_slots - 1
    /\ hist.clean => free_slots(cfg, sp) = 0

\* C32 witness: an insert has reused one of two positions chained through
\* the slots, and one is left
C32_Witness ==
    /\ cfg.fl = "IntrusiveFree"
    /\ last.op \in InsertOps /\ ~last.panic /\ last.ret.ok
    /\ last.pre.free_slots = 2
    /\ free_slots(cfg, sp) = 1
    /\ total_slots(sp) - Cardinality(Live) = 1

\* C33: in every state reached by inserts and removes/deletes of live keys
\* the free-chain walk of IntrusiveFree (free_slots / len) terminates after
\* visiting at most total_slots positions: every slot it visits holds a link,
\* the chain from free_head never revisits a position, and it ends at a
\* self-referential link or at an out-of-range link.
C33_WalkTerminates ==
    cfg.fl = "IntrusiveFree" =>
        LET walk == IntrusiveFree_walk(cfg.K, sp.pool, sp.free_list.free_head,
                                       Len(sp.pool) + 1)
            link(pos) == try_key(sp.pool[pos + 1])
        IN  /\ Len(walk) <= total_slots(sp)
            /\ NoDup(walk)
            /\ \A i \in 1..Len(walk) : link(walk[i]).some
            /\ \A i \in 1..(Len(walk) - 1) :
                  index(cfg.K, link(walk[i]).v) = walk[i + 1]
            /\ walk # <<>> =>
                  LET end == walk[Len(walk)]
                      to  == index(cfg.K, link(end).v)
                  IN  to = end \/ ~InBacking(sp.pool, to)

\* C33 witness: a chain through every slot of a pool of three that ends at
\* an out-of-range link
C33_Witness ==
    /\ cfg.fl = "IntrusiveFree"
    /\ total_slots(sp) = 3
    /\ Len(IntrusiveFree_walk(cfg.K, sp.pool, sp.free_list.free_head, 4)) = 3
    /\ LET walk == IntrusiveFree_walk(cfg.K, sp.pool, sp.free_list.free_head, 4)
       IN  ~InBacking(sp.pool, index(cfg.K, try_key(sp.pool[walk[3] + 1]).v))

(* ------------------------ the intrusive chain --------------------------- *)

\* C34: IntrusiveFree, for every key type: delete(k) / remove(k) of a live
\* key k writes into slot k a link to the previous free head, or a link to k
\* itself when the free list was empty, and sets free_head = k; alloc returns
\* the old head, follows the link stored there, and treats a self-referential
\* link as "list now empty". Hence after removing live keys k1, ..., kn in
\* order from a pool with an empty free list, slot k1 holds link k1 and slot
\* ki holds link k(i-1).
C34_LinkStructure ==
    cfg.fl = "IntrusiveFree" =>
        LET link(k) == try_key(sp.pool[index(cfg.K, k) + 1])
            n       == Len(hist.freed)
        IN  /\ last.op \in RemoveOps =>
                  /\ link(last.key) =
                        Some(IF last.pre.due.some THEN last.pre.due.v ELSE last.key)
                  /\ sp.free_list.free_head = index(cfg.K, last.key)
            /\ (last.op \in InsertOps /\ last.pre.due.some) =>
                  /\ last.ret = Ok(last.pre.due.v)
                  /\ sp.free_list.free_head =
                        IF n = 0 THEN UsizeMax ELSE index(cfg.K, hist.freed[n])
            /\ \A i \in 1..n :
                  link(hist.freed[i]) =
                      Some(IF i = 1 THEN hist.freed[1] ELSE hist.freed[i - 1])

\* C35: SlabPool::clear resets the pool to the state of a new pool as far as
\* keys are concerned, for both free lists: afterwards total_slots() = 0 and
\* free_slots() = 0, next_key() is the key of index 0, and the inserts that
\* follow return the keys of index 0, 1, 2, ... whichever keys were live or
\* free before.
C35_ClearResets ==
    /\ last.op = "clear" =>
          /\ total_slots(sp) = 0
          /\ free_slots(cfg, sp) = 0
          /\ next_key(cfg, sp) = try_new(cfg.K, 0)
          /\ Live = {}
    /\ (last.op \in InsertOps /\ last.pre.clean /\ ~last.panic /\ last.ret.ok) =>
          /\ last.ret.v = try_new(cfg.K, last.pre.n).v
          /\ index(cfg.K, last.ret.v) = last.pre.n

(* ------------------ clearing and serving the slices --------------------- *)

\* C36: IntrusiveClasses::clear forgets every free block: after clear(),
\* whatever had been deallocated before, alloc(cap) returns None for every
\* cap, and goes on doing so (it leaves the allocator as it is, as does a
\* dealloc of a range shorter than capacity(1)) until the next dealloc of a
\* range of length >= capacity(1).
C36_ClearForgets ==
    slast.op = "clear" =>
        /\ sl.free_heads = <<>>
        /\ \A cap \in 0..UsizeMax :
              LET r == IntrusiveClasses_alloc(sl, cap)
              IN  ~r.panic /\ r.ret = None /\ r.sl = sl
        /\ \A b \in 0..(BackingLen - 1), e \in 0..BackingLen :
              (b <= e /\ e - b < capacity(sl.size_classes, 1).v) =>
                  IntrusiveClasses_dealloc(sl, SliceOf(sl.K, <<b, e>>)) =
                      SlResult(sl, None, FALSE)

\* C37: every range [b, e) returned by a successful alloc(cap) has length
\* exactly capacity(size_class_containing(cap)) = round_up_capacity(cap),
\* hence e - b >= cap, whether the block came from the class's own free list
\* or from a split; within one class blocks are handed out most recently
\* freed first: a dealloc puts its blocks before those already on a list, and
\* an alloc whose class has a free block returns the head of its list and
\* leaves the rest.
C37_AllocLength ==
    LET s  == sl.size_classes
        c  == size_class_containing(s, slast.arg)
        ch == ClassChains(sl)
    IN  /\ (slast.op = "alloc" /\ slast.ret.some) =>
              /\ ~slast.panic
              /\ ~capacity(s, c).panic
              /\ slast.ret.v[2] - slast.ret.v[1] = capacity(s, c).v
              /\ round_up_capacity(s, slast.arg) = capacity(s, c)
              /\ slast.ret.v[2] - slast.ret.v[1] >= slast.arg
              /\ ChainOf(slast.pre.chains, c) # <<>> =>
                    /\ slast.ret.v[1] = Head(ChainOf(slast.pre.chains, c))
                    /\ ChainOf(ch, c) = Tail(ChainOf(slast.pre.chains, c))
        /\ (slast.op = "dealloc" /\ ~slast.panic) =>
              \A d \in 1..(WordBits + 1) :
                  LET old == ChainOf(slast.pre.chains, d)
                      now == ChainOf(ch, d)
                  IN  /\ Len(now) >= Len(old)
                      /\ SubSeq(now, Len(now) - Len(old) + 1, Len(now)) = old

\* C37 witness: an alloc of a capacity that is not a class capacity has
\* taken the head of a list of two blocks
C37_Witness ==
    LET s == sl.size_classes
        c == size_class_containing(s, slast.arg)
    IN  /\ slast.op = "alloc" /\ slast.ret.some
        /\ capacity(s, c).v > slast.arg
        /\ Len(ChainOf(slast.pre.chains, c)) = 2
        /\ slast.ret.v[1] = Head(ChainOf(slast.pre.chains, c))

\* C38: provided the caller only deallocates ranges whose units it owns
\* (units of the initial backing it still holds, or of ranges alloc returned
\* that it has not deallocated), in every reachable state the free blocks on
\* all class lists are pairwise disjoint (and disjoint from what the caller
\* holds), every range returned by alloc lies entirely inside space that was
\* deallocated and free before the call, and no two outstanding allocated
\* ranges share a unit.
C38_NoOverlap ==
    LET s      == sl.size_classes
        ch     == ClassChains(sl)
        blocks == BlocksOf(ch)
    IN  /\ \A c \in DOMAIN ch : NoDup(ch[c])
        /\ \A x, y \in blocks :
              x # y => Units(BlockRange(s, x)) \cap Units(BlockRange(s, y)) = {}
        /\ FreeUnits(s, ch) \subseteq 0..(BackingLen - 1)
        /\ FreeUnits(s, ch) \cap own.units = {}
        /\ (slast.op = "alloc" /\ slast.ret.some) =>
              /\ slast.ret.v[1] < slast.ret.v[2]
              /\ Units(slast.ret.v) \subseteq FreeUnits(s, slast.pre.chains)
              /\ Units(slast.ret.v) \cap slast.pre.units = {}
              /\ Units(slast.ret.v) \cap FreeUnits(s, ch) = {}
        /\ \A x, y \in own.blocks : x # y => Units(x) \cap Units(y) = {}

\* C38 witness: the client holds three ranges alloc returned beside free
\* blocks of two classes
C38_Witness ==
    LET ch == ClassChains(sl)
    IN  /\ slast.op = "alloc" /\ slast.ret.some
        /\ Cardinality(own.blocks) >= 3
        /\ Cardinality({c \in DOMAIN ch : ch[c] # <<>>}) >= 2

\* C39: a failed slice allocation changes nothing: whenever alloc(cap) returns
\* None, the free_heads vector (its length and every head) and every backing
\* slot are what they were before the call, even when the failure is detected
\* only after recursing into split-source classes.
C39_FailedAllocKeeps ==
    (slast.op = "alloc" /\ ~slast.panic /\ ~slast.ret.some) =>
        /\ slast.kept
        /\ ClassChains(sl) = slast.pre.chains

\* C39 witness: an alloc has failed on a class whose list is empty, after
\* asking the classes above it, while a smaller class has a free block
C39_Witness ==
    LET c == size_class_containing(sl.size_classes, slast.arg)
    IN  /\ slast.op = "alloc" /\ ~slast.panic /\ ~slast.ret.some
        /\ c >= 1
        /\ c <= Len(sl.free_heads)
        /\ sl.free_heads[c] = UsizeMax
        /\ \E d \in 1..(c - 1) : ChainOf(ClassChains(sl), d) # <<>>

(* ------------------ the recursions of the slice allocator --------------- *)

\* the number of calls of dealloc, the outermost included, that
\* dealloc(alloc) makes on allocator a; the count is cut after `fuel` calls
RECURSIVE dealloc_calls(_, _, _)
dealloc_calls(a, alloc, fuel) ==
    LET begin == index(a.K, alloc[1])
        end   == index(a.K, alloc[2])
        len   == IF end >= begin THEN Val(end - begin)
                 ELSE IF a.size_classes.build = "debug" THEN Panic
                 ELSE Val(AsUsize(end - begin))
    IN  IF fuel = 0 THEN 0
        ELSE IF len.panic THEN 1
        ELSE LET size_class == size_class_contained(a.size_classes, len.v)
                 begin_slack ==
                     AsUsize(begin + capacity(a.size_classes, size_class).v)
             IN  IF size_class = 0 \/ begin >= Len(a.backing) THEN 1
                 ELSE 1 + dealloc_calls(a, Slice(new_unchecked(a.K, begin_slack), alloc[2]),
                                        fuel - 1)

\* the number of calls of alloc_size_class, the outermost included, that
\* alloc_size_class(size_class) makes on allocator a; cut after `fuel` calls
RECURSIVE alloc_size_class_calls(_, _, _)
alloc_size_class_calls(a, size_class, fuel) ==
    IF fuel = 0 THEN 0
    ELSE IF size_class = 0 THEN 1
    ELSE IF capacity(a.size_classes, size_class).panic THEN 1
    ELSE IF size_class > Len(a.free_heads) THEN 1
    ELSE IF a.free_heads[size_class] < Len(a.backing) THEN 1
    ELSE IF a.size_classes.build = "debug" /\ a.free_heads[size_class] # UsizeMax
    THEN 1
    ELSE LET upper_class == split_size_class(a.size_classes, size_class)
         IN  IF upper_class.some
             THEN 1 + alloc_size_class_calls(a, upper_class.v, fuel - 1)
             ELSE 1

\* C40: the recursions of the slice allocator terminate: dealloc of any
\* range [b, e) with b <= e finishes after at most (e - b) / capacity(1) + 1
\* calls, each shortening the range (the calls depend on the range, the size
\* classes and the length of the backing only: every range is tried on the
\* new allocator, and the range of every dealloc made), and in every
\* reachable state alloc_size_class finishes for every class, going no
\* further up than the first class beyond the length of free_heads.
C40_RecursionsTerminate ==
    LET s == sl.size_classes
    IN  /\ slast.op = "new" =>
              \A b \in 0..BackingLen, e \in 0..BackingLen :
                  b <= e =>
                      dealloc_calls(sl, SliceOf(sl.K, <<b, e>>), BackingLen + 2)
                          <= ((e - b) \div capacity(s, 1).v) + 1
        /\ slast.op = "dealloc" =>
              dealloc_calls(sl, SliceOf(sl.K, slast.arg), BackingLen + 2)
                  <= ((slast.arg[2] - slast.arg[1]) \div capacity(s, 1).v) + 1
        /\ \A c \in 0..(WordBits + 2) :
              LET calls == alloc_size_class_calls(sl, c, WordBits + 4)
              IN  /\ calls <= WordBits + 3
                  /\ c \in 1..Len(sl.free_heads) =>
                        calls <= Len(sl.free_heads) - c + 2

\* C40 witness: a dealloc has taken three calls or more, and an alloc of
\* some class whose list is empty goes up to its split source
C40_Witness ==
    /\ slast.op = "dealloc"
    /\ slast.arg[1] <= slast.arg[2]
    /\ dealloc_calls(sl, SliceOf(sl.K, slast.arg), BackingLen + 2) >= 3
    /\ \E c \in 1..(WordBits + 1) : alloc_size_class_calls(sl, c, WordBits + 4) >= 2

====
